---- MODULE Spec2Model ----
(***************************************************************************)
(* Model of the asset generation orchestrator and the tiered resource      *)
(* cache of CineGen AI Director:                                            *)
(*   - retryOperation   (services/doubaoService.ts, services/geminiService) *)
(*   - generateShotList (the shot pipeline)                                 *)
(*   - generateVideo    (submit + poll)                                     *)
(*   - saveFileToServer / getFile / getResourceUrl (fileService.ts,         *)
(*     utils/resourceHelper.ts) over the file server (server/index.ts)      *)
(* Values that JavaScript leaves untyped are tagged records: [num |-> 1]    *)
(* and [str |-> "1"] are the number 1 and the string "1".                   *)
(***************************************************************************)
EXTENDS Integers, Sequences, FiniteSets, TLC

VARIABLES
  \* ---- retryOperation (one activation at a time) ----
  rPc,        \* "idle" | "call" | "sleep" | "returned" | "thrown"
  rOwner,     \* who awaits this activation: "test" | "scene" | "poll"
  rMax,       \* maxRetries
  rBase,      \* baseDelay
  rI,         \* the loop index i
  rLastError, \* lastError
  rResult,    \* the value returned (rPc = "returned")
  rThrown,    \* the error raised (rPc = "thrown")
  rCalls,     \* number of invocations of operation() in this activation
  rSleeps,    \* the delays slept in this activation, in order
  rLog        \* outcome of each invocation, in order (history)

retryVars == <<rPc, rOwner, rMax, rBase, rI, rLastError, rResult, rThrown,
               rCalls, rSleeps, rLog>>

VARIABLES
  \* ---- generateShotList ----
  gPc,        \* "idle" | "delay" | "scene" | "done" | "rejected"
  scriptData, \* the argument: [scenes, storyParagraphs]
  gI,         \* the loop index i (0-based, as in the source)
  allShots,   \* allShots
  gResult,    \* the value the call resolved to (gPc = "done"), <<>> before
  gDelays,    \* milliseconds of inter-scene delay awaited so far (history)
  gScenes     \* per settled scene: how it ended and what the upstream sent (history)

shotVars == <<gPc, scriptData, gI, allShots, gResult, gDelays, gScenes>>

VARIABLES
  \* ---- generateVideo ----
  vPc,         \* "idle" | "submit" | "wait" | "poll" | "returned" | "thrown"
  vTaskId,     \* taskId
  vAttempts,   \* attempts
  vResult,     \* [ok |-> the value returned] or [throw |-> the error raised]
  vPolls,      \* status polls issued (history)
  vAnswered,   \* status responses received (history)
  vRetried,    \* some status poll needed more than one request (history)
  vAllRunning, \* no response so far reported a terminal status (history)
  vLog,        \* the status responses, while there are at most MaxStatusLog (history)
  vEnd         \* the response after which the call settled (history)

videoVars == <<vPc, vTaskId, vAttempts, vResult, vPolls, vAnswered, vRetried,
               vAllRunning, vLog, vEnd>>

VARIABLES
  \* ---- the browser, the file server and the IndexedDB cache ----
  localStorage,  \* [username, apiKey]: cinegen_username, cinegen_doubao_api_key
  runtimeApiKey, \* runtimeApiKey of doubaoService
  store,         \* the files of the file server, by path
  cache,         \* the records of the IndexedDB store 'files', by url
  fLog           \* the calls of saveFileToServer and getResourceUrl (history)

fileVars == <<localStorage, runtimeApiKey, store, cache, fLog>>

VARIABLES
  \* ---- the project store and the logger ----
  projects,      \* the records of the IndexedDB store 'projects', by id
  logs,          \* this.logs of the logger
  aLog           \* the calls on the project store and the logger (history)

appVars == <<projects, logs, aLog>>

vars == <<retryVars, shotVars, videoVars, fileVars, appVars>>

(***************************************************************************)
(* Bounds of the model.                                                     *)
(***************************************************************************)
MaxRetriesBound == 4
MaxScenes == 2
MaxParas == 2
MaxShots == 2
MaxStatusLog == 3
MaxOps == 2

(***************************************************************************)
(* retryOperation                                                           *)
(***************************************************************************)
DefaultMaxRetries == 3
DefaultBaseDelay == 2000

Undefined == [undef |-> TRUE]
NoValue == [none |-> TRUE]

RECURSIVE Pow2(_)
Pow2(n) == IF n = 0 THEN 1 ELSE 2 * Pow2(n - 1)

\* e.message?.includes(tok): messages are sequences of tokens; the token
\* "xianliu" stands for the two-character Chinese word for rate limiting
includes(message, tok) == \E k \in 1..Len(message) : message[k] = tok

\* the catch clause's test for a quota / rate limit error
isRateLimitNever(e) == FALSE
isRateLimitAlways(e) == TRUE
isRateLimitStatusOnly(e) == e.status = 429
isRateLimit(e) ==
  \/ e.status = 429
  \/ e.code = 429
  \/ includes(e.message, "429")
  \/ includes(e.message, "quota")
  \/ includes(e.message, "xianliu")

\* const delay = baseDelay * Math.pow(2, i)
backoffDelayLinear(base, i) == base * (i + 1)
backoffDelayConstant(base, i) == base
backoffDelay(base, i) == base * Pow2(i)

\* the for loop's test, i < maxRetries
attemptsRemainOneMore(i, max) == i <= max
attemptsRemain(i, max) == i < max

\* errors an operation can raise in the stand-alone runs of retryOperation
TestErrors ==
  { [status |-> 429, code |-> 0, message |-> <<"Too", "Many">>],
    [status |-> 0, code |-> 429, message |-> <<>>],
    [status |-> 0, code |-> 0, message |-> <<"HTTP", "429">>],
    [status |-> 0, code |-> 0, message |-> <<"quota", "exceeded">>],
    [status |-> 0, code |-> 0, message |-> <<"xianliu">>],
    [status |-> 500, code |-> 0, message |-> <<"Internal">>],
    [status |-> 0, code |-> 0, message |-> <<"network">>] }

TestOutcomes == {[ok |-> v] : v \in {"v1", "v2"}} \cup {[err |-> e] : e \in TestErrors}

IsOk(out) == "ok" \in DOMAIN out
IsErr(out) == "err" \in DOMAIN out

(***************************************************************************)
(* JavaScript values and text                                               *)
(***************************************************************************)
\* String(v), as a TLA+ string and as a JavaScript value
Str(v) == IF "num" \in DOMAIN v THEN ToString(v.num) ELSE v.str
String(v) == [str |-> Str(v)]

\* Array.isArray(v)
isArray(v) == "arr" \in DOMAIN v

SeqsUpTo(S, n) == UNION {[1..k -> S] : k \in 0..n}

\* texts are sequences of characters
Whitespace == {" ", "\n"}

RECURSIVE trimStart(_)
trimStart(t) == IF t # <<>> /\ Head(t) \in Whitespace THEN trimStart(Tail(t)) ELSE t

RECURSIVE trimEnd(_)
trimEnd(t) ==
  IF t # <<>> /\ t[Len(t)] \in Whitespace THEN trimEnd(SubSeq(t, 1, Len(t) - 1)) ELSE t

\* String.prototype.trim
trim(t) == trimEnd(trimStart(t))

\* Array.prototype.join
RECURSIVE join(_, _)
join(texts, sep) ==
  IF texts = <<>> THEN <<>>
  ELSE IF Len(texts) = 1 THEN texts[1]
  ELSE texts[1] \o <<sep>> \o join(Tail(texts), sep)

(***************************************************************************)
(* The upstream chat completion, as generateShotList uses it                *)
(***************************************************************************)
kf(id, type, status) == [id |-> id, type |-> type, status |-> status]

\* shots an upstream response can carry: the ids collide, the claimed sceneId
\* is wrong or another scene's, keyframes repeat a type or are not an array
RawShots ==
  { [id |-> "shot-1", sceneId |-> [str |-> "wrong-id"], actionSummary |-> "a",
     keyframes |-> [arr |-> <<kf("k1", "start", "ready"), kf("k1", "end", "failed"),
                              kf("kf-1-start", "start", "generating")>>]],
    [id |-> "shot-1", sceneId |-> [num |-> 1], actionSummary |-> "b",
     keyframes |-> [other |-> "null"]] }

\* "Limit to maximum 6-8 shots per scene", and a response that has one more
PromptShotLimit == 8
TooManyShots ==
  [k \in 1..(PromptShotLimit + 1) |-> CHOOSE s \in RawShots : s.actionSummary = "b"]

ShotArrays == SeqsUpTo(RawShots, MaxShots)
ShortArrays == SeqsUpTo(RawShots, 1)

\* response texts: a JSON array, the same inside a markdown fence, an object
\* wrapping an array, an object without array, prose around an array (intact
\* or broken), prose only, the empty string
EmptyText == [fence |-> FALSE, body |-> [empty |-> TRUE]]
ChatTexts ==
  {[fence |-> FALSE, body |-> [arr |-> a]] : a \in ShotArrays}
  \cup {[fence |-> TRUE, body |-> [arr |-> a]] : a \in ShortArrays}
  \cup {[fence |-> FALSE, body |-> [obj |-> <<[key |-> k, val |-> [arr |-> a]]>>]] :
          k \in {"shots", "items"}, a \in ShortArrays}
  \cup {[fence |-> FALSE, body |-> [obj |-> <<[key |-> "note", val |-> [other |-> "x"]]>>]]}
  \cup {[fence |-> FALSE, body |-> [prose |-> [arr |-> a]]] : a \in ShortArrays}
  \cup {[fence |-> FALSE, body |-> [arr |-> TooManyShots]]}
  \cup {[fence |-> FALSE, body |-> [prose |-> [badarr |-> "["]]],
        [fence |-> FALSE, body |-> [prose |-> [other |-> "x"]]],
        EmptyText}

\* failed HTTP exchanges of callChatAPI: the status and the message of the
\* error body (<<>> when the body names none)
HttpFailures ==
  { [status |-> 429, bodyMessage |-> <<>>],
    [status |-> 429, bodyMessage |-> <<"Too", "many", "requests">>],
    [status |-> 500, bodyMessage |-> <<>>],
    [status |-> 401, bodyMessage |-> <<"Unauthorized">>] }

\* throw new Error(error.message || error.error?.message || `API request failed: ${status}`)
callChatAPIError(http) ==
  [status |-> 0, code |-> 0,
   message |-> IF http.bodyMessage # <<>> THEN http.bodyMessage
               ELSE <<"API", "request", "failed:", ToString(http.status)>>]

\* what awaiting callChatAPI(prompt) can give: the content, or an Error
ChatOutcomes ==
  {[ok |-> t] : t \in ChatTexts}
  \cup {[err |-> callChatAPIError(h)] : h \in HttpFailures}
  \cup {[err |-> [status |-> 0, code |-> 0, message |-> <<"Failed", "to", "fetch">>]]}

\* cleanJsonString
cleanJsonString(text) ==
  IF "empty" \in DOMAIN text.body THEN [fence |-> FALSE, body |-> [obj |-> <<>>]]
  ELSE [text EXCEPT !.fence = FALSE]

\* JSON.parse
jsonParse(text) ==
  IF text.fence \/ "prose" \in DOMAIN text.body THEN [throw |-> "SyntaxError"]
  ELSE [ok |-> text.body]

\* the object branch: parsed.shots, parsed.data, parsed.result, else the first
\* array among Object.values(parsed), else parsed itself
hasArrayAt(o, key) == \E k \in 1..Len(o) : o[k].key = key /\ isArray(o[k].val)
valueAt(o, key) == o[CHOOSE k \in 1..Len(o) : o[k].key = key /\ isArray(o[k].val)].val
unwrapArrayTopLevelOnly(parsed) == parsed
unwrapArray(parsed) ==
  IF isArray(parsed) THEN parsed
  ELSE IF hasArrayAt(parsed.obj, "shots") THEN valueAt(parsed.obj, "shots")
  ELSE IF hasArrayAt(parsed.obj, "data") THEN valueAt(parsed.obj, "data")
  ELSE IF hasArrayAt(parsed.obj, "result") THEN valueAt(parsed.obj, "result")
  ELSE IF \E k \in 1..Len(parsed.obj) : isArray(parsed.obj[k].val)
    THEN parsed.obj[CHOOSE k \in 1..Len(parsed.obj) :
                      /\ isArray(parsed.obj[k].val)
                      /\ \A j \in 1..(k - 1) : ~isArray(parsed.obj[j].val)].val
  ELSE parsed

\* the try/catch around JSON.parse in processScene: the parsed value, or the
\* Error("Failed to parse shots array")
parseShotsResponse(responseText) ==
  LET first == jsonParse(cleanJsonString(responseText))
  IN IF "ok" \in DOMAIN first THEN [ok |-> unwrapArray(first.ok)]
     ELSE IF /\ "prose" \in DOMAIN responseText.body
             /\ isArray(responseText.body.prose)
       THEN [ok |-> responseText.body.prose]
     ELSE [throw |-> "Failed to parse shots array"]

\* shots.map(s => ({...s, sceneId: String(scene.id)}))
overrideSceneIdKeep(s, scene) == s
overrideSceneIdRaw(s, scene) == [s EXCEPT !.sceneId = scene.id]
overrideSceneId(s, scene) == [s EXCEPT !.sceneId = String(scene.id)]

\* const shots = Array.isArray(parsed) ? parsed : []; return shots.map(...)
sceneShotsCapped(scene, parsed) ==
  LET shots == IF isArray(parsed) THEN parsed.arr ELSE <<>>
      n == IF Len(shots) > PromptShotLimit THEN PromptShotLimit ELSE Len(shots)
  IN [k \in 1..n |-> overrideSceneId(shots[k], scene)]
sceneShots(scene, parsed) ==
  LET shots == IF isArray(parsed) THEN parsed.arr ELSE <<>>
  IN [k \in 1..Len(shots) |-> overrideSceneId(shots[k], scene)]

\* processScene from the resumption after await retryOperation(...) on: what
\* the promise settles to, [ok |-> shots] or [throw |-> error]; pc and result
\* are how retryOperation ended
processSceneNoCatch(scene, pc, result, thrown) ==
  IF pc = "returned"
    THEN LET parsed == parseShotsResponse(result)
         IN IF "ok" \in DOMAIN parsed THEN [ok |-> sceneShots(scene, parsed.ok)]
            ELSE [throw |-> parsed.throw]
    ELSE [throw |-> thrown]
processSceneAfterAwait(scene, pc, result, thrown) ==
  IF pc = "returned" /\ "ok" \in DOMAIN parseShotsResponse(result)
    THEN [ok |-> sceneShots(scene, parseShotsResponse(result).ok)]
    ELSE [ok |-> <<>>]

\* the paragraphs of a scene, joined
paragraphsOf(sd, scene) ==
  LET matching == SelectSeq(sd.storyParagraphs,
                            LAMBDA p : Str(p.sceneRefId) = Str(scene.id))
  IN join([k \in 1..Len(matching) |-> matching[k].text], "\n")

\* if (!paragraphs.trim()) return []
hasNoTextNever(sd, scene) == FALSE
hasNoText(sd, scene) == trim(paragraphsOf(sd, scene)) = <<>>

\* the re-index of one shot at (1-based) position idx
shotIdLocal(idx) == "shot-1"
shotId(idx) == "shot-" \o ToString(idx)
keyframeId(idx, type) == "kf-" \o ToString(idx) \o "-" \o type
reindexShotTrustingIds(s, idx) ==
  [s EXCEPT !.id = shotId(idx),
            !.keyframes =
               IF isArray(s.keyframes)
                 THEN [arr |-> [k \in 1..Len(s.keyframes.arr) |->
                         [s.keyframes.arr[k] EXCEPT !.status = "pending"]]]
                 ELSE [arr |-> <<>>]]
reindexShot(s, idx) ==
  [s EXCEPT !.id = shotId(idx),
            !.keyframes =
               IF isArray(s.keyframes)
                 THEN [arr |-> [k \in 1..Len(s.keyframes.arr) |->
                         [s.keyframes.arr[k] EXCEPT
                            !.id = keyframeId(idx, s.keyframes.arr[k].type),
                            !.status = "pending"]]]
                 ELSE [arr |-> <<>>]]

\* allShots.map((s, idx) => ...)
reindex(shots) == [k \in 1..Len(shots) |-> reindexShot(shots[k], k)]

\* batchResults.forEach(shots => allShots.push(...shots))
pushShotsFront(all, shots) == shots \o all
pushShots(all, shots) == all \o shots

(***************************************************************************)
(* Scripts given to generateShotList                                        *)
(***************************************************************************)
\* scene ids are numbers or strings; paragraphs refer to a scene by a value
\* whose String() is that of the scene id, not always of the same type
sceneIdAt(i) ==
  IF i % 3 = 1 THEN [num |-> i]
  ELSE IF i % 3 = 2 THEN [str |-> "s" \o ToString(i)]
  ELSE [str |-> ToString(i)]
refTo(i) ==
  IF i % 3 = 1 THEN [str |-> ToString(i)]
  ELSE IF i % 3 = 2 THEN [str |-> "s" \o ToString(i)]
  ELSE [num |-> i]

ParaPool ==
  {[sceneRefId |-> refTo(i), text |-> <<"a">>] : i \in 1..MaxScenes}
  \cup {[sceneRefId |-> refTo(1), text |-> <<" ">>]}

Scripts ==
  {[scenes |-> [i \in 1..n |-> [id |-> sceneIdAt(i)]], storyParagraphs |-> ps] :
     n \in 0..MaxScenes, ps \in SeqsUpTo(ParaPool, MaxParas)}

(***************************************************************************)
(* The file layer: fileService.ts over the file server (server/index.ts),   *)
(* and utils/resourceHelper.ts.  User names, API keys and file names are    *)
(* sequences of characters or of longer pieces; a piece that starts with a  *)
(* dot is an extension.  URLs and payloads are records with a kind.         *)
(***************************************************************************)
API_BASE == "http://localhost:3001"

\* undefined, null and the empty string, and JavaScript's test for the rest
NoUrl == [kind |-> "none"]
truthy(v) == v.kind # "none"

\* new Error(message)
JsError(message) == [status |-> 0, code |-> 0, message |-> message]

\* a data: URL; a bare base64 string is [kind |-> "raw", b64 |-> bytes]
dataUrl(mime, bytes) == [kind |-> "data", mime |-> mime, b64 |-> bytes]

\* /api/files/get/<username>/<resourceType>/<filename>
filesPath(username, resourceType, filename) ==
  [username |-> username, resourceType |-> resourceType, filename |-> filename]

\* `${origin}${path}`: origin "" makes a relative URL
urlOf(origin, path) == [kind |-> "url", origin |-> origin, path |-> path]
\* a URL of another scheme, such as blob:
opaqueUrl(text) == [kind |-> "opaque", origin |-> "", path |-> [other |-> text]]
storeUrl(origin, key) == urlOf(origin, [api |-> key])

\* url.startsWith('data:'), url.startsWith('http')
startsWithData(url) == url.kind = "data"
startsWithHttp(url) == url.kind = "url" /\ url.origin # ""

\* percent-encoding of a path segment by new URL() and by fetch, and the
\* decoding of a route parameter by the server
encodeSegment(seg) == [k \in DOMAIN seg |-> IF seg[k] = " " THEN "%20" ELSE seg[k]]
decodeSegment(seg) == [k \in DOMAIN seg |-> IF seg[k] = "%20" THEN " " ELSE seg[k]]

\* new URL(url).pathname
pathname(url) ==
  IF "api" \in DOMAIN url.path
    THEN [api |-> filesPath(encodeSegment(url.path.api.username),
                            url.path.api.resourceType,
                            encodeSegment(url.path.api.filename))]
    ELSE url.path

\* pathPart.includes('/api/files/get/')
includesFilesGet(pathPart) == "api" \in DOMAIN pathPart

\* apiKey.substring(0, 8)
substring8(key) == SubSeq(key, 1, IF Len(key) < 8 THEN Len(key) ELSE 8)

\* getUsername: the value returned, and localStorage afterwards
getUsername(ls) ==
  IF ls.username # <<>> THEN ls.username
  ELSE IF ls.apiKey # <<>> THEN substring8(ls.apiKey)
  ELSE <<"d", "e", "f", "a", "u", "l", "t">>

getUsernameStored(ls) ==
  IF ls.username = <<>> /\ ls.apiKey # <<>>
    THEN [ls EXCEPT !.username = substring8(ls.apiKey)]
    ELSE ls

\* ---- the file server ----
DotPieces == {".png", ".jpg", ".jpeg", ".mp4", ".webm", ".bin"}

\* finalFilename.includes('.')
includesDot(name) == \E k \in 1..Len(name) : name[k] \in DotPieces

\* the extension the save route derives from the mime type
extensionFor(mime) ==
  IF mime = "image/png" THEN ".png"
  ELSE IF mime \in {"image/jpeg", "image/jpg"} THEN ".jpg"
  ELSE IF mime = "video/mp4" THEN ".mp4"
  ELSE ".bin"

\* the Content-Type the get route derives from path.extname(filename)
contentTypeFor(name) ==
  LET ext == IF name # <<>> /\ name[Len(name)] \in DotPieces THEN name[Len(name)] ELSE ""
  IN IF ext = ".png" THEN "image/png"
     ELSE IF ext \in {".jpg", ".jpeg"} THEN "image/jpeg"
     ELSE IF ext = ".mp4" THEN "video/mp4"
     ELSE IF ext = ".webm" THEN "video/webm"
     ELSE "application/octet-stream"

\* a map with one more (or one replaced) entry
put(f, k, v) == [x \in DOMAIN f \cup {k} |-> IF x = k THEN v ELSE f[x]]

\* the name the save route writes: filename || `file_${Date.now()}`, plus an
\* extension when the name has none
finalFilename(filename, data, mimeType) ==
  LET named == IF filename # <<>> THEN filename ELSE <<"file_", "0">>
  IN IF includesDot(named) THEN named
     ELSE IF startsWithData(data)
       THEN Append(named, extensionFor(IF mimeType # "" THEN mimeType ELSE data.mime))
     ELSE Append(named, ".bin")

\* the save route refusing to overwrite a file that is there
serverSaveKeepExisting(st, disk, username, resourceType, filename, data, mimeType) ==
  IF username = <<>> \/ resourceType = "" \/ ~truthy(data)
    THEN [status |-> 400, error |-> <<"Missing", "required", "fields">>, store |-> st]
  ELSE IF ~disk
    THEN [status |-> 500, error |-> <<"EIO">>, store |-> st]
  ELSE LET key == filesPath(username, resourceType,
                            finalFilename(filename, data, mimeType))
       IN [status |-> 200, url |-> key,
           store |-> IF key \in DOMAIN st THEN st ELSE put(st, key, data.b64)]

\* POST /api/files/save on store st; disk says whether the write succeeds
serverSave(st, disk, username, resourceType, filename, data, mimeType) ==
  IF username = <<>> \/ resourceType = "" \/ ~truthy(data)
    THEN [status |-> 400, error |-> <<"Missing", "required", "fields">>, store |-> st]
  ELSE IF ~disk
    THEN [status |-> 500, error |-> <<"EIO">>, store |-> st]
  ELSE LET key == filesPath(username, resourceType,
                            finalFilename(filename, data, mimeType))
       IN [status |-> 200, url |-> key, store |-> put(st, key, data.b64)]

\* the get route answering a missing file with a server error
serverGetMissingIs500(st, username, resourceType, filename) ==
  LET key == filesPath(decodeSegment(username), resourceType, decodeSegment(filename))
  IN IF key \in DOMAIN st
       THEN [status |-> 200, contentType |-> contentTypeFor(key.filename), body |-> st[key]]
       ELSE [status |-> 500]

\* GET /api/files/get/:username/:resourceType/:filename, the parameters as
\* they are in the request line
serverGet(st, username, resourceType, filename) ==
  LET key == filesPath(decodeSegment(username), resourceType, decodeSegment(filename))
  IN IF key \in DOMAIN st
       THEN [status |-> 200, contentType |-> contentTypeFor(key.filename), body |-> st[key]]
       ELSE [status |-> 404]

\* the size limits of the server, in MB: the body limit of express.json and
\* the fileSize limit of the multer upload, which no route uses
JsonLimitMB == 150
UploadFileSizeMB == 100

\* the length of the base64 text of mb megabytes: four characters for three bytes
base64MB(mb) == (4 * mb + 2) \div 3

\* POST /api/files/save behind express.json: a body over the limit is answered
\* 413 before the route runs; the payload is a video of mb megabytes, written
\* here as its decoded size
postFilesSave(st, disk, username, resourceType, filename, mb) ==
  IF base64MB(mb) > JsonLimitMB
    THEN [status |-> 413, error |-> <<"request", "entity", "too", "large">>, store |-> st]
    ELSE serverSave(st, disk, username, resourceType, filename,
                    dataUrl("video/mp4", mb), "video/mp4")

\* GET /api/files/list/:username/:resourceType: the files of the answer
serverList(st, username, resourceType) ==
  LET dir == {key \in DOMAIN st : /\ key.username = decodeSegment(username)
                                   /\ key.resourceType = resourceType}
  IN [files |-> {[filename |-> key.filename, url |-> key] : key \in dir}]

\* ---- the client ----
\* what a call finds: the file server reachable or not, its disk writable or
\* not, IndexedDB readable and writable or not
Envs ==
  [remote : BOOLEAN, disk : BOOLEAN, cacheRead : BOOLEAN, cacheWrite : BOOLEAN]

\* the faults whose promise rejects outside the try block of the function
\* they occur in: getError, the onerror of store.get in getFromCache, and
\* readerError, the onerror of the FileReader in getFileFromServer; both
\* functions return the promise without awaiting it
FaultEnvs ==
  [remote : BOOLEAN, disk : {TRUE}, cacheRead : BOOLEAN, cacheWrite : BOOLEAN,
   getError : BOOLEAN, readerError : BOOLEAN]
faulty(env, fault) == fault \in DOMAIN env /\ env[fault]
\* the rejection of an awaited promise
Rejected == [kind |-> "rejected"]
isRejected(v) == v.kind = "rejected"

\* what a read finds: the disk of the file server plays no part in it
ReadEnvs == {env \in Envs : env.disk}

\* saveToCache: a failure is caught and logged
saveToCacheBareBase64(ch, env, key, data, resourceType) ==
  IF env.cacheWrite
    THEN put(ch, key, [data |-> [kind |-> "raw", b64 |-> data.b64],
                       resourceType |-> resourceType])
    ELSE ch
saveToCache(ch, env, key, data, resourceType) ==
  IF env.cacheWrite
    THEN put(ch, key, [data |-> data, resourceType |-> resourceType])
    ELSE ch

\* getFromCache: a failure is caught and gives null
getFromCacheMiss(ch, env, key) == NoUrl
getFromCache(ch, env, key) ==
  IF env.cacheRead /\ faulty(env, "getError") THEN Rejected
  ELSE IF env.cacheRead /\ key \in DOMAIN ch THEN ch[key].data ELSE NoUrl

\* saveFileToServer with the cache written before the request is sent
saveFileToServerCacheFirst(ls, st, ch, env, resourceType, filename, data, mimeType) ==
  LET username == getUsername(ls)
      res == serverSave(st, env.disk, username, resourceType, filename, data, mimeType)
      warmed == saveToCache(ch, env, filesPath(username, resourceType, filename),
                            data, resourceType)
  IN IF ~env.remote
       THEN [out |-> [throw |-> JsError(<<"Failed", "to", "fetch">>)],
             ls |-> getUsernameStored(ls), store |-> st, cache |-> warmed, net |-> 1]
     ELSE IF res.status # 200
       THEN [out |-> [throw |-> JsError(res.error)],
             ls |-> getUsernameStored(ls), store |-> st, cache |-> warmed, net |-> 1]
     ELSE [out |-> [ok |-> storeUrl(API_BASE, res.url)],
           ls |-> getUsernameStored(ls), store |-> res.store, cache |-> warmed, net |-> 1]

\* saveFileToServer(resourceType, filename, data, mimeType): the outcome, the
\* state afterwards and the number of requests sent to the file server
saveFileToServer(ls, st, ch, env, resourceType, filename, data, mimeType) ==
  LET username == getUsername(ls)
      ls1 == getUsernameStored(ls)
      res == serverSave(st, env.disk, username, resourceType, filename, data, mimeType)
  IN IF ~env.remote
       THEN [out |-> [throw |-> JsError(<<"Failed", "to", "fetch">>)],
             ls |-> ls1, store |-> st, cache |-> ch, net |-> 1]
     ELSE IF res.status # 200
       THEN [out |-> [throw |-> JsError(res.error)],
             ls |-> ls1, store |-> st, cache |-> ch, net |-> 1]
     ELSE [out |-> [ok |-> storeUrl(API_BASE, res.url)],
           ls |-> ls1, store |-> res.store,
           cache |-> saveToCache(ch, env, res.url, data, resourceType), net |-> 1]

\* getFileFromServer(resourceType, filename): the data URL read from the
\* response, or null
getFileFromServer(ls, st, env, resourceType, filename) ==
  LET res == serverGet(st, encodeSegment(getUsername(ls)), resourceType,
                       encodeSegment(filename))
  IN IF env.remote /\ res.status = 200
       THEN IF faulty(env, "readerError") THEN Rejected
            ELSE dataUrl(res.contentType, res.body)
       ELSE NoUrl

\* getFile with a saveToCache that rejects when the write fails: the caller's
\* catch takes over and the fetched payload is lost
getFileCacheWriteRejects(ls, st, ch, env, resourceType, filename) ==
  LET key == filesPath(getUsername(ls), resourceType, filename)
      ls1 == getUsernameStored(ls)
      cached == getFromCache(ch, env, key)
      serverData == getFileFromServer(ls1, st, env, resourceType, filename)
  IN IF truthy(cached)
       THEN [value |-> cached, ls |-> ls1, cache |-> ch, net |-> 0]
     ELSE IF truthy(serverData) /\ env.cacheWrite
       THEN [value |-> serverData, ls |-> ls1,
             cache |-> saveToCache(ch, env, key, serverData, resourceType), net |-> 1]
     ELSE [value |-> NoUrl, ls |-> ls1, cache |-> ch, net |-> 1]

\* getFile(resourceType, filename); a rejection of either await rejects it
getFile(ls, st, ch, env, resourceType, filename) ==
  LET key == filesPath(getUsername(ls), resourceType, filename)
      ls1 == getUsernameStored(ls)
      cached == getFromCache(ch, env, key)
      serverData == getFileFromServer(ls1, st, env, resourceType, filename)
  IN IF truthy(cached)
       THEN [value |-> cached, ls |-> ls1, cache |-> ch, net |-> 0]
     ELSE IF isRejected(serverData)
       THEN [value |-> Rejected, ls |-> ls1, cache |-> ch, net |-> 1]
     ELSE IF truthy(serverData)
       THEN [value |-> serverData, ls |-> ls1,
             cache |-> saveToCache(ch, env, key, serverData, resourceType), net |-> 1]
     ELSE [value |-> NoUrl, ls |-> ls1, cache |-> ch, net |-> 1]

\* getResourceUrl giving undefined where the source falls back to the URL
getResourceUrlOrUndefined(ls, st, ch, env, url, resourceType) ==
  IF ~truthy(url) THEN [value |-> NoUrl, ls |-> ls, cache |-> ch, net |-> 0]
  ELSE IF startsWithData(url) THEN [value |-> url, ls |-> ls, cache |-> ch, net |-> 0]
  ELSE LET pathPart == IF startsWithHttp(url) THEN pathname(url) ELSE url.path
       IN IF includesFilesGet(pathPart)
            THEN LET cached == getFromCache(ch, env, pathPart.api)
                 IN IF truthy(cached)
                      THEN [value |-> cached, ls |-> ls, cache |-> ch, net |-> 0]
                      ELSE getFile(ls, st, ch, env, resourceType, pathPart.api.filename)
            ELSE [value |-> url, ls |-> ls, cache |-> ch, net |-> 0]

\* getResourceUrl putting a data: URL into the cache before returning it
getResourceUrlCachingData(ls, st, ch, env, url, resourceType) ==
  IF ~truthy(url) THEN [value |-> NoUrl, ls |-> ls, cache |-> ch, net |-> 0]
  ELSE IF startsWithData(url)
    THEN [value |-> url, ls |-> ls,
          cache |-> saveToCache(ch, env, filesPath(getUsername(ls), resourceType, <<>>),
                                url, resourceType),
          net |-> 0]
  ELSE LET pathPart == IF startsWithHttp(url) THEN pathname(url) ELSE url.path
       IN IF includesFilesGet(pathPart)
            THEN LET cached == getFromCache(ch, env, pathPart.api)
                     got == getFile(ls, st, ch, env, resourceType, pathPart.api.filename)
                 IN IF truthy(cached)
                      THEN [value |-> cached, ls |-> ls, cache |-> ch, net |-> 0]
                    ELSE IF truthy(got.value) THEN got
                    ELSE [got EXCEPT !.value = url]
            ELSE [value |-> url, ls |-> ls, cache |-> ch, net |-> 0]

\* getResourceUrl without the try block around the two awaits
getResourceUrlNoCatch(ls, st, ch, env, url, resourceType) ==
  IF ~truthy(url) THEN [value |-> NoUrl, ls |-> ls, cache |-> ch, net |-> 0]
  ELSE IF startsWithData(url) THEN [value |-> url, ls |-> ls, cache |-> ch, net |-> 0]
  ELSE LET pathPart == IF startsWithHttp(url) THEN pathname(url) ELSE url.path
       IN IF includesFilesGet(pathPart)
            THEN LET cached == getFromCache(ch, env, pathPart.api)
                     got == getFile(ls, st, ch, env, resourceType, pathPart.api.filename)
                 IN IF truthy(cached)
                      THEN [value |-> cached, ls |-> ls, cache |-> ch, net |-> 0]
                    ELSE IF truthy(got.value) THEN got
                    ELSE [got EXCEPT !.value = url]
            ELSE [value |-> url, ls |-> ls, cache |-> ch, net |-> 0]

\* getResourceUrl(url, resourceType); the catch clause takes a rejection of
\* getFromCache or getFile to the return of url at the end
getResourceUrl(ls, st, ch, env, url, resourceType) ==
  IF ~truthy(url) THEN [value |-> NoUrl, ls |-> ls, cache |-> ch, net |-> 0]
  ELSE IF startsWithData(url) THEN [value |-> url, ls |-> ls, cache |-> ch, net |-> 0]
  ELSE LET pathPart == IF startsWithHttp(url) THEN pathname(url) ELSE url.path
       IN IF includesFilesGet(pathPart)
            THEN LET cached == getFromCache(ch, env, pathPart.api)
                     got == getFile(ls, st, ch, env, resourceType, pathPart.api.filename)
                 IN IF isRejected(cached)
                      THEN [value |-> url, ls |-> ls, cache |-> ch, net |-> 0]
                    ELSE IF truthy(cached)
                      THEN [value |-> cached, ls |-> ls, cache |-> ch, net |-> 0]
                    ELSE IF truthy(got.value) /\ ~isRejected(got.value) THEN got
                    ELSE [got EXCEPT !.value = url]
            ELSE [value |-> url, ls |-> ls, cache |-> ch, net |-> 0]

\* API keys: one longer than eight characters; typed into the dialog: that
\* one, one with a space, a blank
StoredKey == <<"s", "k", "-", "1", "2", "3", "4", "5", "6", "7">>
InputKeys == {StoredKey, <<"k", " ", "2">>, <<" ">>}

(***************************************************************************)
(* The upstream video API, as generateVideo uses it                         *)
(***************************************************************************)
MaxAttempts == 240

\* the nine places the result URL is looked for, in the order of the source:
\* content.video_url, video_url, result.video_url, data.video_url,
\* output.video_url, data.result.video_url, result.url, data.url, content.url
noUrls == [k \in 1..9 |-> NoUrl]
urlAt(k, url) == [noUrls EXCEPT ![k] = url]

\* the four places the failure message is looked for: error, message,
\* data.error, data.message
noErrs == [k \in 1..4 |-> NoUrl]

\* a status response: status, state and data.status ("" when absent)
statusResponse(status, state, dataStatus, urls, errs) ==
  [status |-> status, state |-> state, dataStatus |-> dataStatus,
   urls |-> urls, errs |-> errs]

UpstreamVideoUrl == urlOf("https://cdn.upstream.example", [other |-> "/v/1.mp4"])

RunningResponses ==
  { statusResponse("pending", "", "", noUrls, noErrs),
    statusResponse("", "processing", "", noUrls, noErrs),
    statusResponse("", "", "running", noUrls, noErrs),
    statusResponse("", "", "", noUrls, noErrs),
    statusResponse("queued", "completed", "failed", urlAt(1, UpstreamVideoUrl), noErrs) }

DoneResponses ==
  { statusResponse("completed", "", "",
                   [urlAt(1, UpstreamVideoUrl) EXCEPT ![4] = opaqueUrl("blob:2")], noErrs),
    statusResponse("", "succeeded", "", [urlAt(7, dataUrl("video/webm", "V2")) EXCEPT ![9] = UpstreamVideoUrl],
                   noErrs),
    statusResponse("", "", "success", urlAt(2, opaqueUrl("blob:1")), noErrs),
    statusResponse("succeeded", "", "", noUrls, noErrs) }

FailedResponses ==
  { statusResponse("failed", "", "", noUrls, [noErrs EXCEPT ![1] = [kind |-> "str", text |-> <<"boom">>]]),
    statusResponse("", "error", "", noUrls, noErrs),
    statusResponse("failed", "running", "", urlAt(1, UpstreamVideoUrl),
                   [noErrs EXCEPT ![1] = [kind |-> "obj"],
                                    ![2] = [kind |-> "str", text |-> <<"late">>]]) }

\* throw new Error(error.message || error.error?.message || `Status check failed: ${status}`)
statusCheckError(http) ==
  JsError(IF http.bodyMessage # <<>> THEN http.bodyMessage
          ELSE <<"Status", "check", "failed:", ToString(http.status)>>)

\* what one status request can give
PollOutcomes ==
  {[ok |-> r] : r \in RunningResponses \cup DoneResponses \cup FailedResponses}
  \cup {[err |-> statusCheckError(h)] : h \in HttpFailures}

\* the answer to the create request: task_id, id, data.task_id ("" when absent)
createResponse(taskId, id, dataTaskId) ==
  [task_id |-> taskId, id |-> id, dataTaskId |-> dataTaskId]

CreateResponses ==
  { createResponse("t1", "", ""), createResponse("", "t1", "t9"),
    createResponse("", "", "t1"), createResponse("", "", "") }

\* throw new Error(error.error?.message || error.message || `Video generation failed: ${status}`)
createTaskError(http) ==
  JsError(IF http.bodyMessage # <<>> THEN http.bodyMessage
          ELSE <<"Video", "generation", "failed:", ToString(http.status)>>)

SubmitOutcomes ==
  {[ok |-> r] : r \in CreateResponses}
  \cup {[err |-> createTaskError(h)] : h \in HttpFailures}

\* a || b || c on strings
firstNonEmpty(a, b, c) == IF a # "" THEN a ELSE IF b # "" THEN b ELSE c

\* createResponse.task_id || createResponse.id || createResponse.data?.task_id
taskIdOf(r) == firstNonEmpty(r.task_id, r.id, r.dataTaskId)

\* statusResponse.status || statusResponse.state || statusResponse.data?.status
statusOf(r) == firstNonEmpty(r.status, r.state, r.dataStatus)

\* the first truthy element of a chain a || b || ..., else the last element
RECURSIVE firstTruthy(_)
firstTruthy(vs) ==
  IF Len(vs) = 1 \/ truthy(Head(vs)) THEN Head(vs) ELSE firstTruthy(Tail(vs))

\* the last truthy element of the chain, else the last element
RECURSIVE lastTruthy(_)
lastTruthy(vs) ==
  IF Len(vs) = 1 \/ truthy(vs[Len(vs)]) THEN vs[Len(vs)]
  ELSE lastTruthy(SubSeq(vs, 1, Len(vs) - 1))
videoUrlOfLastPath(r) == lastTruthy(r.urls)

\* the videoUrl of a done response
videoUrlOf(r) == firstTruthy(r.urls)

\* the three-way test of the poll loop
isDoneSucceededOnly(status) == status = "succeeded"
isDone(status) == status \in {"completed", "success", "succeeded"}
isFailedFailedOnly(status) == status = "failed"
isFailed(status) == status \in {"failed", "error"}

\* while (attempts < maxAttempts)
pollAttemptsRemainOneMore(attempts) == attempts <= MaxAttempts
pollAttemptsRemain(attempts) == attempts < MaxAttempts

\* `${errorMsg}` of the failed branch
errorMsgOf(r) ==
  LET v == firstTruthy(r.errs)
  IN IF v.kind = "str" THEN v.text
     ELSE IF v.kind = "obj" THEN <<"[object", "Object]">>
     ELSE <<"Unknown", "error">>

\* the errors generateVideo raises itself; "shibai" and "chaoshi" stand for
\* the Chinese phrases "video generation failed" and "video generation timed out"
ApiKeyMissing == JsError(<<"API", "Key", "missing.">>)
ConvertFailed == JsError(<<"Failed", "to", "convert", "localhost", "image">>)
NoTaskId == JsError(<<"shibai", "(No", "task", "ID", "returned)">>)
NoVideoUrlAsTimeout == JsError(<<"chaoshi", "(Video", "generation", "timeout)">>)
NoVideoUrl == JsError(<<"shibai", "(No", "video", "URL", "in", "response)">>)
VideoFailed(r) == JsError(<<"shibai:">> \o errorMsgOf(r))
VideoTimeout == JsError(<<"chaoshi", "(Video", "generation", "timeout)">>)

\* what fetch(videoUrl) and reading the body as a data URL can give: a
\* network failure, or a response of whatever status
Downloads ==
  { [failed |-> TRUE],
    [failed |-> FALSE, status |-> 200, contentType |-> "video/mp4", body |-> "V1"],
    [failed |-> FALSE, status |-> 403, contentType |-> "text/html", body |-> "E403"] }

\* generateFilename('video', '.mp4'): a time stamp and a random suffix
VideoFilenames == {<<"video_1_a", ".mp4">>, <<"video_2_b", ".mp4">>}

\* convertImageUrlToBase64(imageUrl), fetched saying whether the image could
\* be fetched
convertImageUrlToBase64(imageUrl, fetched) ==
  IF ~truthy(imageUrl) THEN [ok |-> NoUrl]
  ELSE IF startsWithData(imageUrl) THEN [ok |-> imageUrl]
  ELSE IF imageUrl.kind = "url"
          /\ imageUrl.origin \in {"http://localhost:3001", "http://127.0.0.1:3001"}
    THEN IF fetched THEN [ok |-> dataUrl("image/png", "P1")] ELSE [throw |-> ConvertFailed]
  ELSE [ok |-> imageUrl]

\* the start and end images a call can be given
FrameImages ==
  { NoUrl, dataUrl("image/png", "P1"),
    storeUrl(API_BASE, filesPath(<<"d">>, "images", <<"a", ".png">>)),
    urlOf("https://cdn.upstream.example", [other |-> "/i/1.png"]) }

\* the outcomes an invocation of operation() can have, by awaiting caller
\* the operation object of the Veo API: done, and
\* response.generatedVideos[0].video.uri (NoUrl when absent)
VeoUri == urlOf("https://veo.upstream.example", [other |-> "/v/9.mp4"])
VeoOperations ==
  { [done |-> FALSE, uri |-> NoUrl], [done |-> TRUE, uri |-> VeoUri],
    [done |-> TRUE, uri |-> NoUrl] }
\* what ai.models.generateVideos and ai.operations.getVideosOperation can
\* give: an operation, a rate-limit error, another error
VeoOutcomes ==
  {[ok |-> op] : op \in VeoOperations}
  \cup {[err |-> e] : e \in {[status |-> 429, code |-> 0, message |-> <<"Too", "Many">>],
                           [status |-> 0, code |-> 0, message |-> <<"network">>]}}
VeoFailed == JsError(<<"shibai", "(Video", "generation", "failed)">>)

Outcomes(owner) ==
  IF owner = "scene" THEN ChatOutcomes
  ELSE IF owner = "submit" THEN SubmitOutcomes
  ELSE IF owner = "poll" THEN PollOutcomes
  ELSE IF owner = "veo" THEN VeoOutcomes
  ELSE TestOutcomes

\* retryOperation(operation, maxRetries, baseDelay): entry, up to the first
\* evaluation of the loop test
retryOperationBegin(owner, max, base) ==
  /\ rOwner' = owner
  /\ rMax' = max
  /\ rBase' = base
  /\ rI' = 0
  /\ rLastError' = Undefined
  /\ rResult' = NoValue
  /\ rCalls' = 0
  /\ rSleeps' = <<>>
  /\ rLog' = <<>>
  /\ IF attemptsRemain(0, max)
       THEN rPc' = "call" /\ rThrown' = NoValue
       ELSE rPc' = "thrown" /\ rThrown' = Undefined

\* one pass through the try block: await operation(), then return or catch
retryOperationAttempt ==
  /\ rPc = "call"
  /\ \E out \in Outcomes(rOwner) :
       /\ rCalls' = rCalls + 1
       /\ rLog' = Append(rLog, out)
       /\ \/ /\ IsOk(out)
             /\ rPc' = "returned"
             /\ rResult' = out.ok
             /\ UNCHANGED <<rLastError, rThrown>>
          \/ /\ IsErr(out)
             /\ isRateLimit(out.err)
             /\ rPc' = "sleep"
             /\ rLastError' = [id |-> rCalls + 1, e |-> out.err]
             /\ UNCHANGED <<rResult, rThrown>>
          \/ /\ IsErr(out)
             /\ ~isRateLimit(out.err)
             /\ rPc' = "thrown"
             /\ rLastError' = [id |-> rCalls + 1, e |-> out.err]
             /\ rThrown' = [id |-> rCalls + 1, e |-> out.err]
             /\ UNCHANGED rResult
  /\ UNCHANGED <<rOwner, rMax, rBase, rI, rSleeps>>

\* the setTimeout of the catch clause elapses; continue; i++; loop test;
\* after the loop, throw lastError
retryOperationSleep ==
  /\ rPc = "sleep"
  /\ rSleeps' = Append(rSleeps, backoffDelay(rBase, rI))
  /\ rI' = rI + 1
  /\ IF attemptsRemain(rI + 1, rMax)
       THEN rPc' = "call" /\ UNCHANGED rThrown
       ELSE rPc' = "thrown" /\ rThrown' = rLastError
  /\ UNCHANGED <<rOwner, rMax, rBase, rLastError, rResult, rCalls, rLog>>

(***************************************************************************)
(* generateShotList                                                         *)
(***************************************************************************)
InterSceneDelayHalved == 1500 \div 2
InterSceneDelay == 1500

\* no call of generateVideo
VideoIdle ==
  /\ vPc = "idle" /\ vTaskId = "" /\ vAttempts = 0 /\ vResult = NoValue
  /\ vPolls = 0 /\ vAnswered = 0 /\ vRetried = FALSE /\ vAllRunning = TRUE
  /\ vLog = <<>> /\ vEnd = NoValue

\* localStorage, the module's runtimeApiKey, the file server's directory and
\* the IndexedDB cache at the start of a session
FilesInit(keys, runtimeKeys) ==
  /\ localStorage \in {[username |-> <<>>, apiKey |-> k] : k \in keys}
  /\ runtimeApiKey \in runtimeKeys
  /\ store = <<>>
  /\ cache = <<>>
  /\ fLog = <<>>

ShotsIdle ==
  /\ gPc = "idle" /\ scriptData = [scenes |-> <<>>, storyParagraphs |-> <<>>]
  /\ gI = 0 /\ allShots = <<>> /\ gResult = <<>>
  /\ gDelays = 0 /\ gScenes = <<>>

\* an empty project store, the logger as constructed
AppIdle == projects = <<>> /\ logs = <<>> /\ aLog = <<>>

\* no activation of retryOperation
RetryIdle ==
  /\ rPc = "idle" /\ rOwner = "test" /\ rMax = 0 /\ rBase = 0 /\ rI = 0
  /\ rLastError = Undefined /\ rResult = NoValue /\ rThrown = NoValue
  /\ rCalls = 0 /\ rSleeps = <<>> /\ rLog = <<>>

retryOperationReset ==
  /\ rPc' = "idle" /\ rOwner' = "test" /\ rMax' = 0 /\ rBase' = 0 /\ rI' = 0
  /\ rLastError' = Undefined /\ rResult' = NoValue /\ rThrown' = NoValue
  /\ rCalls' = 0 /\ rSleeps' = <<>> /\ rLog' = <<>>

\* the shots the response text carried (history only)
CarriedShots(text) ==
  LET b == text.body
  IN IF "arr" \in DOMAIN b THEN b.arr
     ELSE IF "prose" \in DOMAIN b /\ "arr" \in DOMAIN b.prose THEN b.prose.arr
     ELSE IF "obj" \in DOMAIN b /\ b.obj # <<>> /\ "arr" \in DOMAIN b.obj[1].val
       THEN b.obj[1].val.arr
     ELSE <<>>

\* the rest of the loop body once processScene(scene i) settled to res: a
\* rejection rejects Promise.all and with it generateShotList; otherwise push,
\* i += BATCH_SIZE, the loop test, and after the loop the re-index
sceneSettled(sd, i, shotsSoFar, scenesSoFar, res, how) ==
  IF "throw" \in DOMAIN res
    THEN /\ gPc' = "rejected"
         /\ gResult' = res
         /\ allShots' = shotsSoFar
         /\ gScenes' = Append(scenesSoFar, how)
         /\ gI' = i
    ELSE LET all == pushShots(shotsSoFar, res.ok)
         IN /\ allShots' = all
            /\ gScenes' = Append(scenesSoFar, how)
            /\ gI' = i + 1
            /\ IF i + 1 < Len(sd.scenes)
                 THEN gPc' = "delay" /\ gResult' = <<>>
                 ELSE gPc' = "done" /\ gResult' = reindex(all)

\* the loop body for scene i up to processScene's first await
sceneEntered(sd, i, shotsSoFar, scenesSoFar) ==
  IF hasNoText(sd, sd.scenes[i + 1])
    THEN /\ sceneSettled(sd, i, shotsSoFar, scenesSoFar, [ok |-> <<>>],
                         [outcome |-> "notext", sent |-> <<>>, requested |-> FALSE])
         /\ UNCHANGED retryVars
    ELSE /\ gPc' = "scene"
         /\ gI' = i
         /\ allShots' = shotsSoFar
         /\ gScenes' = scenesSoFar
         /\ gResult' = <<>>
         /\ retryOperationBegin("scene", DefaultMaxRetries, DefaultBaseDelay)

\* generateShotList(scriptData): entry
generateShotListCall ==
  /\ gPc = "idle"
  /\ rPc = "idle"
  /\ \E sd \in Scripts :
       /\ scriptData' = sd
       /\ gDelays' = 0
       /\ IF Len(sd.scenes) = 0
            THEN /\ gPc' = "done" /\ gResult' = <<>>
                 /\ UNCHANGED <<gI, allShots, gScenes, retryVars>>
            ELSE sceneEntered(sd, 0, <<>>, <<>>)

\* the 1500 ms between batches elapses and the next scene is entered
interSceneDelay ==
  /\ gPc = "delay"
  /\ gDelays' = gDelays + InterSceneDelay
  /\ sceneEntered(scriptData, gI, allShots, gScenes)
  /\ UNCHANGED scriptData

\* processScene resumes after await retryOperation(...): parse and map, or
\* the catch clause's return []; then the rest of the loop body
processSceneResume ==
  /\ gPc = "scene"
  /\ rOwner = "scene"
  /\ rPc \in {"returned", "thrown"}
  /\ LET scene == scriptData.scenes[gI + 1]
         how == IF rPc = "thrown"
                  THEN [outcome |-> IF rCalls = rMax /\ isRateLimit(rThrown.e)
                                      THEN "exhausted" ELSE "callfailed",
                        sent |-> <<>>, requested |-> rCalls > 0]
                ELSE IF "throw" \in DOMAIN parseShotsResponse(rResult)
                  THEN [outcome |-> "parsefailed", sent |-> <<>>, requested |-> rCalls > 0]
                ELSE [outcome |-> "ok", sent |-> CarriedShots(rResult),
                      requested |-> rCalls > 0]
     IN sceneSettled(scriptData, gI, allShots, gScenes,
                     processSceneAfterAwait(scene, rPc, rResult, rThrown), how)
  /\ retryOperationReset
  /\ UNCHANGED <<scriptData, gDelays>>

NextShots ==
  \/ generateShotListCall /\ UNCHANGED <<videoVars, fileVars, appVars>>
  \/ interSceneDelay /\ UNCHANGED <<videoVars, fileVars, appVars>>
  \/ processSceneResume /\ UNCHANGED <<videoVars, fileVars, appVars>>
  \/ retryOperationAttempt /\ rOwner = "scene"
       /\ UNCHANGED <<shotVars, videoVars, fileVars, appVars>>
  \/ retryOperationSleep /\ rOwner = "scene"
       /\ UNCHANGED <<shotVars, videoVars, fileVars, appVars>>

InitShots == RetryIdle /\ ShotsIdle /\ VideoIdle /\ AppIdle /\ FilesInit({<<>>}, {<<>>})

SpecShots == InitShots /\ [][NextShots]_vars

(***************************************************************************)
(* Stand-alone runs of retryOperation: any maxRetries, two base delays.     *)
(***************************************************************************)
InitRetry == RetryIdle /\ ShotsIdle /\ VideoIdle /\ AppIdle /\ FilesInit({<<>>}, {<<>>})

TestBegin ==
  /\ rPc = "idle"
  /\ \E max \in 0..MaxRetriesBound, base \in {1000, DefaultBaseDelay} :
       retryOperationBegin("test", max, base)

NextRetry ==
  \/ TestBegin /\ UNCHANGED <<shotVars, videoVars, fileVars, appVars>>
  \/ retryOperationAttempt /\ rOwner = "test" /\ UNCHANGED <<shotVars, videoVars, fileVars, appVars>>
  \/ retryOperationSleep /\ rOwner = "test" /\ UNCHANGED <<shotVars, videoVars, fileVars, appVars>>

SpecRetry == InitRetry /\ [][NextRetry]_vars

(***************************************************************************)
(* generateVideo                                                            *)
(***************************************************************************)
\* the call settles: return value or throw error
videoSettles(result) ==
  /\ vPc' = IF "ok" \in DOMAIN result THEN "returned" ELSE "thrown"
  /\ vResult' = result

\* the status a response reports, as the specification reads it, and whether
\* it is one of the terminal tokens (history only)
ReportedStatus(r) ==
  IF r.status # "" THEN r.status ELSE IF r.state # "" THEN r.state ELSE r.dataStatus
DoneTokens == {"completed", "success", "succeeded"}
FailedTokens == {"failed", "error"}
NonTerminal(r) == ReportedStatus(r) \notin DoneTokens \cup FailedTokens

\* generateVideo(prompt, startImage, endImage, duration): checkApiKey, the
\* conversion of the two images, and the entry into the create request
generateVideoCall ==
  /\ vPc = "idle"
  /\ rPc = "idle"
  /\ \E startImage \in FrameImages, endImage \in FrameImages,
        startFetched \in BOOLEAN, endFetched \in BOOLEAN :
       LET key == IF runtimeApiKey # <<>> THEN runtimeApiKey ELSE localStorage.apiKey
           first == convertImageUrlToBase64(startImage, startFetched)
           last == convertImageUrlToBase64(endImage, endFetched)
       IN /\ runtimeApiKey' = key
          /\ IF key = <<>>
               THEN videoSettles([throw |-> ApiKeyMissing]) /\ UNCHANGED retryVars
             ELSE IF "throw" \in DOMAIN first
               THEN videoSettles([throw |-> first.throw]) /\ UNCHANGED retryVars
             ELSE IF "throw" \in DOMAIN last
               THEN videoSettles([throw |-> last.throw]) /\ UNCHANGED retryVars
             ELSE /\ vPc' = "submit"
                  /\ vResult' = NoValue
                  /\ retryOperationBegin("submit", DefaultMaxRetries, DefaultBaseDelay)
  /\ UNCHANGED <<vTaskId, vAttempts, vPolls, vAnswered, vRetried, vAllRunning, vLog, vEnd>>
  /\ UNCHANGED <<localStorage, store, cache, fLog>>

\* generateVideo resumes after the create request: the task id, attempts = 0
\* and the first test of the poll loop
submitResume ==
  /\ vPc = "submit"
  /\ rOwner = "submit"
  /\ rPc \in {"returned", "thrown"}
  /\ IF rPc = "thrown"
       THEN videoSettles([throw |-> rThrown.e]) /\ UNCHANGED vTaskId
     ELSE IF taskIdOf(rResult) = ""
       THEN videoSettles([throw |-> NoTaskId]) /\ UNCHANGED vTaskId
     ELSE /\ vTaskId' = taskIdOf(rResult)
          /\ IF pollAttemptsRemain(0)
               THEN vPc' = "wait" /\ vResult' = NoValue
               ELSE videoSettles([throw |-> VideoTimeout])
  /\ retryOperationReset
  /\ UNCHANGED <<vAttempts, vPolls, vAnswered, vRetried, vAllRunning, vLog, vEnd>>
  /\ UNCHANGED fileVars

\* the poll interval elapses and the status request is handed to retryOperation
pollTimer ==
  /\ vPc = "wait"
  /\ vPc' = "poll"
  /\ vPolls' = vPolls + 1
  /\ retryOperationBegin("poll", DefaultMaxRetries, DefaultBaseDelay)
  /\ UNCHANGED <<vTaskId, vAttempts, vResult, vAnswered, vRetried, vAllRunning, vLog, vEnd>>
  /\ UNCHANGED fileVars

\* the done branch once a videoUrl was found: download and save an http URL,
\* save a data: URL, return anything else as it is; a failed download or save
\* falls back to videoUrl
deliverVideo(videoUrl, dl, env, name, ls, st, ch) ==
  LET data == IF startsWithHttp(videoUrl) THEN dataUrl(dl.contentType, dl.body) ELSE videoUrl
      s == saveFileToServer(ls, st, ch, env, "videos", name, data, "video/mp4")
  IN IF (startsWithHttp(videoUrl) /\ ~dl.failed) \/ startsWithData(videoUrl)
       THEN [value |-> IF "ok" \in DOMAIN s.out THEN s.out.ok ELSE videoUrl,
             ls |-> s.ls, store |-> s.store, cache |-> s.cache,
             log |-> <<[op |-> "save", resourceType |-> "videos", filename |-> name,
                        data |-> data, out |-> s.out, net |-> s.net]>>]
       ELSE [value |-> videoUrl, ls |-> ls, store |-> st, cache |-> ch, log |-> <<>>]

\* generateVideo resumes after a status request: the rest of the loop body,
\* the loop test, and the throw after the loop
pollResume ==
  /\ vPc = "poll"
  /\ rOwner = "poll"
  /\ rPc \in {"returned", "thrown"}
  /\ vRetried' = (vRetried \/ rCalls > 1)
  /\ IF rPc = "thrown"
       THEN /\ videoSettles([throw |-> rThrown.e])
            /\ UNCHANGED <<vAttempts, vAnswered, vAllRunning, vLog, vEnd, fileVars>>
       ELSE /\ vAnswered' = vAnswered + 1
            /\ vAllRunning' = (vAllRunning /\ NonTerminal(rResult))
            /\ vLog' = IF vAnswered < MaxStatusLog THEN Append(vLog, rResult) ELSE <<>>
            /\ IF isDone(statusOf(rResult))
                 THEN /\ vEnd' = rResult
                      /\ UNCHANGED vAttempts
                      /\ IF truthy(videoUrlOf(rResult))
                           THEN \E dl \in Downloads, env \in Envs, name \in VideoFilenames :
                                  LET d == deliverVideo(videoUrlOf(rResult), dl, env, name,
                                                        localStorage, store, cache)
                                  IN /\ videoSettles([ok |-> d.value])
                                     /\ localStorage' = d.ls
                                     /\ store' = d.store
                                     /\ cache' = d.cache
                                     /\ fLog' = fLog \o d.log
                                     /\ UNCHANGED runtimeApiKey
                           ELSE videoSettles([throw |-> NoVideoUrl]) /\ UNCHANGED fileVars
               ELSE IF isFailed(statusOf(rResult))
                 THEN /\ vEnd' = rResult
                      /\ videoSettles([throw |-> VideoFailed(rResult)])
                      /\ UNCHANGED <<vAttempts, fileVars>>
               ELSE /\ vAttempts' = vAttempts + 1
                    /\ IF pollAttemptsRemain(vAttempts + 1)
                         THEN vPc' = "wait" /\ vResult' = NoValue /\ UNCHANGED vEnd
                         ELSE videoSettles([throw |-> VideoTimeout]) /\ vEnd' = rResult
                    /\ UNCHANGED fileVars
  /\ retryOperationReset
  /\ UNCHANGED <<vTaskId, vPolls>>

InitVideo ==
  /\ RetryIdle /\ ShotsIdle /\ VideoIdle /\ AppIdle
  /\ FilesInit({<<>>, StoredKey}, {<<>>})

NextVideo ==
  \/ generateVideoCall /\ UNCHANGED <<shotVars, appVars>>
  \/ submitResume /\ UNCHANGED <<shotVars, appVars>>
  \/ pollTimer /\ UNCHANGED <<shotVars, appVars>>
  \/ pollResume /\ UNCHANGED <<shotVars, appVars>>
  \/ retryOperationAttempt /\ rOwner \in {"submit", "poll"}
       /\ UNCHANGED <<shotVars, videoVars, fileVars, appVars>>
  \/ retryOperationSleep /\ rOwner \in {"submit", "poll"}
       /\ UNCHANGED <<shotVars, videoVars, fileVars, appVars>>

SpecVideo == InitVideo /\ [][NextVideo]_vars

(***************************************************************************)
(* generateVideo of geminiService (the stand-by service)                    *)
(***************************************************************************)
\* the status polls the runs of this loop are followed for
MaxVeoPolls == 241

\* after the loop: the uri with the key appended, or the failure
veoSettles(operation) ==
  IF truthy(operation.uri)
    THEN videoSettles([ok |-> [operation.uri EXCEPT !.path = [other |-> operation.uri.path.other,
                                                              key |-> runtimeApiKey]]])
    ELSE videoSettles([throw |-> VeoFailed])

\* geminiService.generateVideo(prompt, startImageBase64, endImageBase64):
\* getAiClient and the entry into the create request
veoGenerateVideoCall ==
  /\ vPc = "idle"
  /\ rPc = "idle"
  /\ IF runtimeApiKey = <<>>
       THEN videoSettles([throw |-> ApiKeyMissing]) /\ UNCHANGED retryVars
       ELSE /\ vPc' = "veoSubmit"
            /\ vResult' = NoValue
            /\ retryOperationBegin("veo", DefaultMaxRetries, DefaultBaseDelay)
  /\ UNCHANGED <<vTaskId, vAttempts, vPolls, vAnswered, vRetried, vAllRunning, vLog, vEnd>>
  /\ UNCHANGED fileVars

\* the call resumes after the create request: the first test of
\* while (!operation.done)
veoSubmitResume ==
  /\ vPc = "veoSubmit"
  /\ rOwner = "veo"
  /\ rPc \in {"returned", "thrown"}
  /\ IF rPc = "thrown" THEN videoSettles([throw |-> rThrown.e])
     ELSE IF ~rResult.done THEN vPc' = "veoWait" /\ vResult' = NoValue
     ELSE veoSettles(rResult)
  /\ retryOperationReset
  /\ UNCHANGED <<vTaskId, vAttempts, vPolls, vAnswered, vRetried, vAllRunning, vLog, vEnd>>
  /\ UNCHANGED fileVars

\* one pass of the loop: the 5 s timer, getVideosOperation, the loop test
veoPoll ==
  /\ vPc = "veoWait"
  /\ vPolls < MaxVeoPolls
  /\ vPolls' = vPolls + 1
  /\ \E out \in VeoOutcomes :
       IF IsErr(out) THEN videoSettles([throw |-> out.err])
       ELSE IF ~out.ok.done THEN UNCHANGED <<vPc, vResult>>
       ELSE veoSettles(out.ok)
  /\ UNCHANGED <<vTaskId, vAttempts, vAnswered, vRetried, vAllRunning, vLog, vEnd>>
  /\ UNCHANGED <<retryVars, fileVars>>

InitVeo ==
  /\ RetryIdle /\ ShotsIdle /\ VideoIdle /\ AppIdle
  /\ FilesInit({<<>>}, {<<>>, StoredKey})

NextVeo ==
  \/ veoGenerateVideoCall /\ UNCHANGED <<shotVars, appVars>>
  \/ veoSubmitResume /\ UNCHANGED <<shotVars, appVars>>
  \/ veoPoll /\ UNCHANGED <<shotVars, appVars>>
  \/ retryOperationAttempt /\ rOwner = "veo" /\ UNCHANGED <<shotVars, videoVars, fileVars, appVars>>
  \/ retryOperationSleep /\ rOwner = "veo" /\ UNCHANGED <<shotVars, videoVars, fileVars, appVars>>

SpecVeo == InitVeo /\ [][NextVeo]_vars

(***************************************************************************)
(* The file layer in use: saves, resolutions and the settings dialog, in    *)
(* any order.                                                               *)
(***************************************************************************)

\* the arguments of the saves: a named image, the same name with other
\* content, a video whose name has a space and no extension, a bare base64
\* string without extension, and an empty payload
SaveFixtures ==
  { [resourceType |-> "images", filename |-> <<"a", ".png">>,
     data |-> dataUrl("image/png", "P1"), mimeType |-> ""],
    [resourceType |-> "images", filename |-> <<"a", ".png">>,
     data |-> dataUrl("image/jpeg", "P2"), mimeType |-> "image/jpeg"],
    [resourceType |-> "videos", filename |-> <<"c", " ", "d">>,
     data |-> dataUrl("video/mp4", "V1"), mimeType |-> "video/mp4"],
    [resourceType |-> "images", filename |-> <<"r">>,
     data |-> [kind |-> "raw", b64 |-> "P1"], mimeType |-> ""],
    [resourceType |-> "images", filename |-> <<"a", ".png">>,
     data |-> NoUrl, mimeType |-> ""] }

\* the references saveFileToServer has returned so far
RECURSIVE ReturnedFrom(_, _)
ReturnedFrom(log, k) ==
  IF k > Len(log) THEN {}
  ELSE (IF log[k].op = "save" /\ "ok" \in DOMAIN log[k].out THEN {log[k].out.ok} ELSE {})
       \cup ReturnedFrom(log, k + 1)

\* what getResourceUrl is called with: a returned reference under the
\* development origin, a production origin or none, a reference to a file
\* nobody saved, a data: URL, a foreign URL, undefined
ResolveInputs(log) ==
  {storeUrl(o, r.path.api) : o \in {API_BASE, "https://cinegen.example", ""},
                             r \in ReturnedFrom(log, 1)}
  \cup { storeUrl(API_BASE, filesPath(<<"d", "e", "f", "a", "u", "l", "t">>, "images",
                                      <<"n", ".png">>)),
         dataUrl("image/png", "P1"),
         UpstreamVideoUrl,
         NoUrl }

\* saveFileToServer(resourceType, filename, data, mimeType)
saveFileToServerCall ==
  /\ Len(fLog) < MaxOps
  /\ \E fx \in SaveFixtures, env \in Envs :
       LET s == saveFileToServer(localStorage, store, cache, env,
                                 fx.resourceType, fx.filename, fx.data, fx.mimeType)
       IN /\ localStorage' = s.ls
          /\ store' = s.store
          /\ cache' = s.cache
          /\ fLog' = Append(fLog, [op |-> "save", resourceType |-> fx.resourceType,
                                   filename |-> fx.filename, data |-> fx.data,
                                   out |-> s.out, net |-> s.net])
  /\ UNCHANGED runtimeApiKey

\* getResourceUrl(url, resourceType)
getResourceUrlCall ==
  /\ Len(fLog) < MaxOps
  /\ \E url \in ResolveInputs(fLog), resourceType \in {"images", "videos"}, env \in ReadEnvs :
       LET g == getResourceUrl(localStorage, store, cache, env, url, resourceType)
       IN /\ localStorage' = g.ls
          /\ cache' = g.cache
          /\ fLog' = Append(fLog, [op |-> "resolve", url |-> url,
                                   resourceType |-> resourceType,
                                   out |-> [ok |-> g.value], net |-> g.net])
  /\ UNCHANGED <<runtimeApiKey, store>>

\* SettingsModal.handleUpdateKey with inputKey typed into the dialog
handleUpdateKey ==
  \E inputKey \in InputKeys :
    /\ trim(inputKey) # <<>>
    /\ runtimeApiKey' = inputKey
    /\ localStorage' = [localStorage EXCEPT !.apiKey = inputKey]
    /\ UNCHANGED <<store, cache, fLog>>

InitCache ==
  /\ RetryIdle /\ ShotsIdle /\ VideoIdle /\ AppIdle
  /\ FilesInit({<<>>, StoredKey}, {<<>>})

NextCache ==
  \/ saveFileToServerCall /\ UNCHANGED <<retryVars, shotVars, videoVars, appVars>>
  \/ getResourceUrlCall /\ UNCHANGED <<retryVars, shotVars, videoVars, appVars>>
  \/ handleUpdateKey /\ UNCHANGED <<retryVars, shotVars, videoVars, appVars>>

SpecCache == InitCache /\ [][NextCache]_vars

(***************************************************************************)
(* getResourceUrl called twice in a row with the same arguments, in a       *)
(* browser whose cache and whose file server an earlier session has filled. *)
(***************************************************************************)
\* the files of earlier sessions: a video of the user without API key, a
\* video of the same name of the user of StoredKey, and an image whose name
\* and whose owner's name have a space
DefaultUser == <<"d", "e", "f", "a", "u", "l", "t">>
OldFile == filesPath(DefaultUser, "videos", <<"o", ".mp4">>)
SpacedFile == filesPath(<<"k", " ", "2">>, "images", <<"c", " ", "d", ".png">>)
OldStore ==
  put(put(put(<<>>, OldFile, "V0"),
          filesPath(substring8(StoredKey), "videos", <<"o", ".mp4">>), "V5"),
      SpacedFile, "P7")

\* the cache entry saveFileToServer or getFile leaves for a file with these bytes
cachedFile(key, bytes) ==
  put(<<>>, key, [data |-> dataUrl(contentTypeFor(key.filename), bytes),
                  resourceType |-> key.resourceType])

\* what getResourceUrl is called with: references to the files above, absolute
\* and relative, a reference to a file nobody saved, a data: URL, a foreign
\* URL, undefined
ResolveUrls ==
  {storeUrl(o, f) : o \in {API_BASE, ""}, f \in {OldFile, SpacedFile}}
  \cup { storeUrl(API_BASE, filesPath(DefaultUser, "images", <<"n", ".png">>)),
         dataUrl("image/png", "P1"),
         UpstreamVideoUrl,
         NoUrl }

\* one call of getResourceUrl, entered in the log with what it found
resolveLogged(url, resourceType, env) ==
  LET g == getResourceUrl(localStorage, store, cache, env, url, resourceType)
  IN /\ localStorage' = g.ls
     /\ cache' = g.cache
     /\ fLog' = Append(fLog, [op |-> "resolve", url |-> url,
                              resourceType |-> resourceType, env |-> env,
                              out |-> [ok |-> g.value], net |-> g.net])
     /\ UNCHANGED <<runtimeApiKey, store>>

\* the first call
getResourceUrlFirst ==
  /\ fLog = <<>>
  /\ \E url \in ResolveUrls, resourceType \in {"images", "videos"}, env \in ReadEnvs :
       resolveLogged(url, resourceType, env)

\* the second call, with the arguments of the first
getResourceUrlAgain ==
  /\ Len(fLog) = 1
  /\ \E env \in ReadEnvs : resolveLogged(fLog[1].url, fLog[1].resourceType, env)

InitResolve ==
  /\ RetryIdle /\ ShotsIdle /\ VideoIdle /\ AppIdle
  /\ localStorage \in {[username |-> <<>>, apiKey |-> k] :
                          k \in {<<>>, StoredKey, <<"k", " ", "2">>}}
  /\ runtimeApiKey = <<>>
  /\ store \in {<<>>, put(<<>>, OldFile, "V0"), OldStore}
  /\ cache \in {<<>>, cachedFile(OldFile, "V0"), cachedFile(OldFile, "V9"),
                 cachedFile(SpacedFile, "P7")}
  /\ fLog = <<>>

NextResolve ==
  \/ getResourceUrlFirst /\ UNCHANGED <<retryVars, shotVars, videoVars, appVars>>
  \/ getResourceUrlAgain /\ UNCHANGED <<retryVars, shotVars, videoVars, appVars>>

SpecResolve == InitResolve /\ [][NextResolve]_vars

\* how an awaited call ends for its caller
settled(v) == IF isRejected(v) THEN [throw |-> v] ELSE [ok |-> v]

\* one call of getResourceUrl while the cache and the FileReader may fail
resolveUnderFaults(url, resourceType, env) ==
  LET g == getResourceUrl(localStorage, store, cache, env, url, resourceType)
  IN /\ localStorage' = g.ls
     /\ cache' = g.cache
     /\ fLog' = Append(fLog, [op |-> "resolve", url |-> url,
                              resourceType |-> resourceType, env |-> env,
                              out |-> settled(g.value), net |-> g.net])
     /\ UNCHANGED <<runtimeApiKey, store>>

\* the first call
getResourceUrlUnderFaults ==
  /\ fLog = <<>>
  /\ \E url \in ResolveUrls, resourceType \in {"images", "videos"}, env \in FaultEnvs :
       resolveUnderFaults(url, resourceType, env)

\* the second call, with the arguments of the first
getResourceUrlUnderFaultsAgain ==
  /\ Len(fLog) = 1
  /\ \E env \in FaultEnvs : resolveUnderFaults(fLog[1].url, fLog[1].resourceType, env)

InitFaults ==
  /\ RetryIdle /\ ShotsIdle /\ VideoIdle /\ AppIdle
  /\ localStorage = [username |-> <<>>, apiKey |-> <<>>]
  /\ runtimeApiKey = <<>>
  /\ store \in {<<>>, put(<<>>, OldFile, "V0"), OldStore}
  /\ cache \in {<<>>, cachedFile(OldFile, "V0"), cachedFile(OldFile, "V9"),
                 cachedFile(SpacedFile, "P7")}
  /\ fLog = <<>>

NextFaults ==
  \/ getResourceUrlUnderFaults /\ UNCHANGED <<retryVars, shotVars, videoVars, appVars>>
  \/ getResourceUrlUnderFaultsAgain /\ UNCHANGED <<retryVars, shotVars, videoVars, appVars>>

SpecFaults == InitFaults /\ [][NextFaults]_vars

(***************************************************************************)
(* saveFileToServer and getResourceUrl running concurrently on one file:    *)
(* every await of the two functions is a step of its own. fLog holds the    *)
(* calls with the place each has reached.                                   *)
(***************************************************************************)
MaxCalls == 3

\* a browser and a file server without faults
Working == [remote |-> TRUE, disk |-> TRUE, cacheRead |-> TRUE, cacheWrite |-> TRUE]
RaceFile == filesPath(DefaultUser, "images", <<"a", ".png">>)
RacePayloads == {dataUrl("image/png", "P1"), dataUrl("image/png", "P2")}

\* the call at place i of fLog moves on
moved(i, pc, out) == fLog' = [fLog EXCEPT ![i].pc = pc, ![i].out = out]

\* saveFileToServer('images', 'a.png', data) is called
saveEnters ==
  /\ Len(fLog) < MaxCalls
  /\ \E data \in RacePayloads :
       fLog' = Append(fLog, [op |-> "save", pc |-> "post", data |-> data, out |-> NoUrl])
  /\ UNCHANGED <<localStorage, runtimeApiKey, store, cache>>

\* await fetch(`${API_BASE}/api/files/save`) and await response.json()
savePosts(i) ==
  /\ fLog[i].op = "save" /\ fLog[i].pc = "post"
  /\ LET res == serverSave(store, Working.disk, getUsername(localStorage), "images",
                           RaceFile.filename, fLog[i].data, "")
     IN /\ store' = res.store
        /\ localStorage' = getUsernameStored(localStorage)
        /\ IF res.status = 200 THEN moved(i, "warm", storeUrl(API_BASE, res.url))
           ELSE moved(i, "thrown", NoUrl)
  /\ UNCHANGED <<runtimeApiKey, cache>>

\* await saveToCache(result.url, data, resourceType); return fileUrl
saveWarms(i) ==
  /\ fLog[i].op = "save" /\ fLog[i].pc = "warm"
  /\ cache' = saveToCache(cache, Working, fLog[i].out.path.api, fLog[i].data, "images")
  /\ moved(i, "done", fLog[i].out)
  /\ UNCHANGED <<localStorage, runtimeApiKey, store>>

\* getResourceUrl(url, 'images') is called with the reference of the file
resolveEnters ==
  /\ Len(fLog) < MaxCalls
  /\ fLog' = Append(fLog, [op |-> "resolve", pc |-> "lookup", data |-> NoUrl, out |-> NoUrl])
  /\ UNCHANGED <<localStorage, runtimeApiKey, store, cache>>

\* await getFromCache(pathPart) in getResourceUrl
resolveLooksUp(i) ==
  /\ fLog[i].op = "resolve" /\ fLog[i].pc = "lookup"
  /\ LET cached == getFromCache(cache, Working, pathname(storeUrl(API_BASE, RaceFile)).api)
     IN IF truthy(cached) THEN moved(i, "done", cached) ELSE moved(i, "getFile", NoUrl)
  /\ UNCHANGED <<localStorage, runtimeApiKey, store, cache>>

\* getFile: getUsername() and await getFromCache(url)
getFileLooksUp(i) ==
  /\ fLog[i].op = "resolve" /\ fLog[i].pc = "getFile"
  /\ LET cached == getFromCache(cache, Working,
                                filesPath(getUsername(localStorage), "images", RaceFile.filename))
     IN IF truthy(cached) THEN moved(i, "done", cached) ELSE moved(i, "fetch", NoUrl)
  /\ localStorage' = getUsernameStored(localStorage)
  /\ UNCHANGED <<runtimeApiKey, store, cache>>

\* getFile: await getFileFromServer(resourceType, filename)
getFileFetches(i) ==
  /\ fLog[i].op = "resolve" /\ fLog[i].pc = "fetch"
  /\ LET serverData == getFileFromServer(localStorage, store, Working, "images",
                                         RaceFile.filename)
     IN IF truthy(serverData)
          THEN fLog' = [fLog EXCEPT ![i].pc = "fill", ![i].data = serverData]
          ELSE moved(i, "done", storeUrl(API_BASE, RaceFile))
  /\ UNCHANGED <<localStorage, runtimeApiKey, store, cache>>

\* getFile: await saveToCache(url, serverData, resourceType); return serverData
getFileFills(i) ==
  /\ fLog[i].op = "resolve" /\ fLog[i].pc = "fill"
  /\ cache' = saveToCache(cache, Working,
                          filesPath(getUsername(localStorage), "images", RaceFile.filename),
                          fLog[i].data, "images")
  /\ moved(i, "done", fLog[i].data)
  /\ UNCHANGED <<localStorage, runtimeApiKey, store>>

InitRace ==
  /\ RetryIdle /\ ShotsIdle /\ VideoIdle /\ AppIdle
  /\ localStorage = [username |-> <<>>, apiKey |-> <<>>]
  /\ runtimeApiKey = <<>>
  /\ store \in {<<>>, put(<<>>, RaceFile, "P0")}
  /\ cache = <<>>
  /\ fLog = <<>>

NextRace ==
  \/ saveEnters /\ UNCHANGED <<retryVars, shotVars, videoVars, appVars>>
  \/ resolveEnters /\ UNCHANGED <<retryVars, shotVars, videoVars, appVars>>
  \/ \E i \in DOMAIN fLog : savePosts(i) /\ UNCHANGED <<retryVars, shotVars, videoVars, appVars>>
  \/ \E i \in DOMAIN fLog : saveWarms(i) /\ UNCHANGED <<retryVars, shotVars, videoVars, appVars>>
  \/ \E i \in DOMAIN fLog : resolveLooksUp(i) /\ UNCHANGED <<retryVars, shotVars, videoVars, appVars>>
  \/ \E i \in DOMAIN fLog : getFileLooksUp(i) /\ UNCHANGED <<retryVars, shotVars, videoVars, appVars>>
  \/ \E i \in DOMAIN fLog : getFileFetches(i) /\ UNCHANGED <<retryVars, shotVars, videoVars, appVars>>
  \/ \E i \in DOMAIN fLog : getFileFills(i) /\ UNCHANGED <<retryVars, shotVars, videoVars, appVars>>

SpecRace == InitRace /\ [][NextRace]_vars

(***************************************************************************)
(* The file server receiving saves of every size.                           *)
(***************************************************************************)
\* decoded sizes in MB, on both sides of the two limits
UploadSizes == {1, 100, 101, 112, 113, 160}

\* one save request
postFilesSaveCall ==
  \E username \in {DefaultUser, substring8(StoredKey)},
     filename \in {<<"o", ".mp4">>, <<"v">>}, mb \in UploadSizes, disk \in BOOLEAN :
    /\ store' = postFilesSave(store, disk, username, "videos", filename, mb).store
    /\ UNCHANGED <<localStorage, runtimeApiKey, cache, fLog>>

InitUpload ==
  /\ RetryIdle /\ ShotsIdle /\ VideoIdle /\ AppIdle
  /\ FilesInit({<<>>}, {<<>>})

NextUpload == postFilesSaveCall /\ UNCHANGED <<retryVars, shotVars, videoVars, appVars>>

SpecUpload == InitUpload /\ [][NextUpload]_vars

(***************************************************************************)
(* storageService: the projects of the IndexedDB store 'projects', keyed   *)
(* by id (keyPath 'id').                                                   *)
(***************************************************************************)
MaxStoreCalls == 4

ProjectIds == {"p1", "p2"}
\* what saveProjectToDB is called with; lastModified is what the caller
\* last read, 0 for a new project
ProjectStates == [id : ProjectIds, title : {"A", "B"}, lastModified : {0}]

\* whether openDB and the request of the call succeed
DbOutcomes == {"ok", "fails"}
\* request.error
RequestError == JsError(<<"request.error">>)
ProjectNotFound == JsError(<<"Project", "not", "found">>)

\* Date.now(): the clock has advanced with every call
DateNow == Len(aLog) + 1

\* store.delete(id) leaving nothing at all
deletedWithAll(ps, id) == <<>>

\* store.delete(id)
deleted(ps, id) == [x \in DOMAIN ps \ {id} |-> ps[x]]

\* saveProjectToDB(project)
saveProjectToDB ==
  /\ Len(aLog) < MaxStoreCalls
  /\ \E project \in ProjectStates, db \in DbOutcomes :
       LET p == [project EXCEPT !.lastModified = DateNow]
       IN /\ projects' = IF db = "ok" THEN put(projects, p.id, p) ELSE projects
          /\ aLog' = Append(aLog, [op |-> "save", id |-> project.id, project |-> project,
                                   now |-> DateNow, db |-> db,
                                   out |-> IF db = "ok" THEN [ok |-> Undefined]
                                           ELSE [throw |-> RequestError]])
  /\ UNCHANGED logs

\* loadProjectFromDB(id)
loadProjectFromDB ==
  /\ Len(aLog) < MaxStoreCalls
  /\ \E id \in ProjectIds, db \in DbOutcomes :
       aLog' = Append(aLog, [op |-> "load", id |-> id, db |-> db,
                              out |-> IF db # "ok" THEN [throw |-> RequestError]
                                      ELSE IF id \in DOMAIN projects
                                        THEN [ok |-> projects[id]]
                                      ELSE [throw |-> ProjectNotFound]])
  /\ UNCHANGED <<projects, logs>>

\* deleteProjectFromDB(id)
deleteProjectFromDB ==
  /\ Len(aLog) < MaxStoreCalls
  /\ \E id \in ProjectIds, db \in DbOutcomes :
       /\ projects' = IF db = "ok" THEN deleted(projects, id) ELSE projects
       /\ aLog' = Append(aLog, [op |-> "delete", id |-> id, db |-> db,
                                out |-> IF db = "ok" THEN [ok |-> Undefined]
                                        ELSE [throw |-> RequestError]])
  /\ UNCHANGED logs

InitProjects ==
  RetryIdle /\ ShotsIdle /\ VideoIdle /\ AppIdle /\ FilesInit({<<>>}, {<<>>})

NextProjects ==
  \/ saveProjectToDB /\ UNCHANGED <<retryVars, shotVars, videoVars, fileVars>>
  \/ loadProjectFromDB /\ UNCHANGED <<retryVars, shotVars, videoVars, fileVars>>
  \/ deleteProjectFromDB /\ UNCHANGED <<retryVars, shotVars, videoVars, fileVars>>

SpecProjects == InitProjects /\ [][NextProjects]_vars

(***************************************************************************)
(* Logger: the buffer this.logs under debug, info, warn, error, clearLogs. *)
(***************************************************************************)
maxLogs == 1000
MaxLogCalls == 3

\* the entry addLog makes; message stands for timestamp, message and data
LogEntry(level, category, message) ==
  [level |-> level, category |-> category, message |-> message]

\* addLog dropping the newest entry of a full buffer
addLogPopping(buffer, level, category, message) ==
  LET pushed == Append(buffer, LogEntry(level, category, message))
  IN IF Len(pushed) > maxLogs THEN SubSeq(pushed, 1, Len(pushed) - 1) ELSE pushed

\* addLog(level, category, message, data): this.logs afterwards
addLog(buffer, level, category, message) ==
  LET pushed == Append(buffer, LogEntry(level, category, message))
  IN IF Len(pushed) > maxLogs THEN Tail(pushed) ELSE pushed

\* the buffer after the n info entries the application wrote while starting
\* (entries from..to added one after the other; the range is halved and the
\* first half computed before the second to keep the evaluation shallow)
RECURSIVE logged(_, _, _)
logged(buffer, from, to) ==
  IF from > to THEN buffer
  ELSE IF from = to THEN addLog(buffer, "INFO", "BOOT", from)
  ELSE LET mid == (from + to) \div 2
           first == logged(buffer, from, mid)
       IN IF Len(first) > 0 THEN logged(first, mid + 1, to) ELSE first
logsAfter(n) == logged(<<>>, 1, n)

\* how many entries the application has written when the calls below start
BootEntries == {0, maxLogs - 2, maxLogs - 1, maxLogs, maxLogs + 1}

\* the calls since the start
laterCalls == {i \in DOMAIN aLog : aLog[i].category # "BOOT"}

\* one of debug, info, warn, error
logCall(op, level) ==
  /\ Cardinality(laterCalls) < MaxLogCalls
  /\ logs' = addLog(logs, level, "API", Len(aLog) + 1)
  /\ aLog' = Append(aLog, [op |-> op, category |-> "API",
                           entry |-> LogEntry(level, "API", Len(aLog) + 1)])
  /\ UNCHANGED projects

debug == logCall("debug", "DEBUG")
info == logCall("info", "INFO")
warn == logCall("warn", "WARN")
error == logCall("error", "ERROR")

\* clearLogs()
clearLogs ==
  /\ Cardinality(laterCalls) < MaxLogCalls
  /\ logs' = <<>>
  /\ aLog' = Append(aLog, [op |-> "clearLogs", category |-> "API", entry |-> NoValue])
  /\ UNCHANGED projects

InitLogger ==
  /\ RetryIdle /\ ShotsIdle /\ VideoIdle /\ FilesInit({<<>>}, {<<>>})
  /\ projects = <<>>
  /\ \E n \in BootEntries :
       /\ logs = logsAfter(n)
       /\ aLog = [i \in 1..n |-> [op |-> "info", category |-> "BOOT",
                                   entry |-> LogEntry("INFO", "BOOT", i)]]

NextLogger ==
  \/ debug /\ UNCHANGED <<retryVars, shotVars, videoVars, fileVars>>
  \/ info /\ UNCHANGED <<retryVars, shotVars, videoVars, fileVars>>
  \/ warn /\ UNCHANGED <<retryVars, shotVars, videoVars, fileVars>>
  \/ error /\ UNCHANGED <<retryVars, shotVars, videoVars, fileVars>>
  \/ clearLogs /\ UNCHANGED <<retryVars, shotVars, videoVars, fileVars>>

SpecLogger == InitLogger /\ [][NextLogger]_vars

(***************************************************************************)
(* Properties of retryOperation (checked under SpecRetry).                  *)
(***************************************************************************)
\* what the specification calls a rate-limit signal: HTTP 429 as status or
\* code, or a throttling word in the message
RateSignal(e) ==
  \/ e.status = 429
  \/ e.code = 429
  \/ \E k \in 1..Len(e.message) : e.message[k] \in {"429", "quota", "xianliu"}

RateFailure(out) == IsErr(out) /\ RateSignal(out.err)
OtherFailure(out) == IsErr(out) /\ ~RateSignal(out.err)
rDone == rPc \in {"returned", "thrown"}

\* C5: an operation that fails twice with a rate-limit signal and then
\* succeeds: retryOperation returns the success result after exactly 3
\* invocations, having slept baseDelay and then 2*baseDelay and nothing else.
C5_TwoRateLimitsThenSuccess ==
  (/\ rOwner = "test"
   /\ Len(rLog) >= 3
   /\ RateFailure(rLog[1]) /\ RateFailure(rLog[2]) /\ IsOk(rLog[3]))
  => /\ rPc = "returned"
     /\ rResult = rLog[3].ok
     /\ rCalls = 3
     /\ Len(rLog) = 3
     /\ rSleeps = <<rBase, 2 * rBase>>

C5_Witness ==
  /\ rOwner = "test" /\ rPc = "returned" /\ rCalls = 3 /\ rBase = DefaultBaseDelay
  /\ RateFailure(rLog[1]) /\ RateFailure(rLog[2]) /\ rResult = "v2"

\* C6: a failure without rate-limit signal, on whichever attempt, is raised
\* again at once as the same error: no further invocation, and no sleep
\* after it (the sleeps are those of the earlier rate-limited failures).
C6_OtherErrorPropagatesImmediately ==
  \A k \in 1..Len(rLog) :
    (rOwner = "test" /\ OtherFailure(rLog[k]))
    => /\ rPc = "thrown"
       /\ rThrown = [id |-> k, e |-> rLog[k].err]
       /\ rCalls = k
       /\ Len(rLog) = k
       /\ Len(rSleeps) = k - 1

C6_Witness ==
  /\ rOwner = "test" /\ rPc = "thrown" /\ Len(rLog) = 2
  /\ RateFailure(rLog[1]) /\ OtherFailure(rLog[2]) /\ rMax > 2

\* C7: when every attempt fails with a rate-limit signal, the operation is
\* invoked exactly maxRetries times, never more, and the error raised is the
\* one the last attempt threw.
C7_ExhaustionRaisesLastError ==
  (rOwner = "test" /\ \A k \in 1..Len(rLog) : RateFailure(rLog[k]))
  => /\ rCalls <= rMax
     /\ rCalls = Len(rLog)
     /\ (rDone => /\ rPc = "thrown"
                  /\ rCalls = rMax
                  /\ (rMax > 0 => rThrown = [id |-> rMax, e |-> rLog[rMax].err]))

C7_Witness ==
  /\ rOwner = "test" /\ rPc = "thrown" /\ rMax = 3 /\ rCalls = 3
  /\ \A k \in 1..3 : RateFailure(rLog[k])
  /\ rLog[3].err # rLog[2].err

(***************************************************************************)
(* Properties of generateShotList (checked under SpecShots).                *)
(***************************************************************************)
gDone == gPc = "done"

\* String(id) of scene j, spelled out
SceneIdString(j) ==
  LET id == scriptData.scenes[j].id
  IN IF "num" \in DOMAIN id THEN [str |-> ToString(id.num)] ELSE [str |-> id.str]

\* the shots the upstream sent for the settled scenes, in scene order and
\* response order, each with the index of its scene
RECURSIVE SentFrom(_)
SentFrom(j) ==
  IF j > Len(gScenes) THEN <<>>
  ELSE [m \in 1..Len(gScenes[j].sent) |-> [scene |-> j, raw |-> gScenes[j].sent[m]]]
       \o SentFrom(j + 1)
Sent == SentFrom(1)

\* C1: every shot of the output carries String(id) of the scene whose request
\* produced it, whatever sceneId the upstream response claimed.
C1_SceneIdIsOriginatingScene ==
  gDone =>
    /\ Len(gResult) = Len(Sent)
    /\ \A k \in 1..Len(gResult) : gResult[k].sceneId = SceneIdString(Sent[k].scene)

C1_Witness ==
  /\ gDone
  /\ \E k \in 1..Len(gResult) :
       /\ Sent[k].raw.sceneId = [str |-> "wrong-id"]
       /\ gResult[k].sceneId = [str |-> "1"]
  /\ \E k \in 1..Len(gResult) :
       /\ Sent[k].raw.sceneId = [num |-> 1]
       /\ gResult[k].sceneId = [str |-> "s2"]

\* C2: the output is the concatenation, in scene order, of each scene's shots
\* in response order, and its k-th shot has id shot-k (dense, no duplicates),
\* whatever ids the upstream assigned.
C2_FlattenedInOrderWithDenseIds ==
  gDone =>
    /\ Len(gResult) = Len(Sent)
    /\ \A k \in 1..Len(gResult) :
         /\ gResult[k].id = "shot-" \o ToString(k)
         /\ gResult[k].actionSummary = Sent[k].raw.actionSummary
    /\ \A k, m \in 1..Len(gResult) : k # m => gResult[k].id # gResult[m].id

C2_Witness ==
  /\ gDone
  /\ Len(gResult) = 4
  /\ Sent[2].scene = 1 /\ Sent[3].scene = 2
  /\ Sent[1].raw.id = Sent[3].raw.id
  /\ Sent[1].raw.actionSummary # Sent[2].raw.actionSummary
  /\ gResult[4].id = "shot-4"

\* C3, the claim's own reading of "no story paragraph matches the scene id, or
\* the matching text is blank"
AllBlank(t) == \A k \in 1..Len(t) : t[k] \in {" ", "\n"}
SameAsString(a, b) ==
  (IF "num" \in DOMAIN a THEN ToString(a.num) ELSE a.str)
  = (IF "num" \in DOMAIN b THEN ToString(b.num) ELSE b.str)
SceneWithoutText(j) ==
  \A k \in 1..Len(scriptData.storyParagraphs) :
    SameAsString(scriptData.storyParagraphs[k].sceneRefId, scriptData.scenes[j].id)
    => AllBlank(scriptData.storyParagraphs[k].text)

\* C3: a scene without attached text yields zero shots, no error and no
\* upstream request; the other scenes are processed normally.
C3_SceneWithoutTextIsSkipped ==
  /\ gPc # "rejected"
  /\ (gPc = "scene" => ~SceneWithoutText(gI + 1))
  /\ \A j \in 1..Len(gScenes) :
       IF SceneWithoutText(j)
         THEN gScenes[j] = [outcome |-> "notext", sent |-> <<>>, requested |-> FALSE]
         ELSE gScenes[j].outcome # "notext" /\ gScenes[j].requested
  /\ gDone => /\ Len(gScenes) = Len(scriptData.scenes)
              /\ Len(gResult) = Len(Sent)
              /\ \A k \in 1..Len(gResult) : ~SceneWithoutText(Sent[k].scene)

C3_Witness ==
  /\ gDone
  /\ Len(scriptData.scenes) = 2
  /\ Len(scriptData.storyParagraphs) = 2
  /\ SceneWithoutText(1)
  /\ \E k \in 1..2 : SameAsString(scriptData.storyParagraphs[k].sceneRefId,
                                  scriptData.scenes[1].id)
  /\ gScenes[2].outcome = "ok"
  /\ Len(gResult) = 2

\* scenes whose upstream call or response parsing failed
SceneFailed(j) == gScenes[j].outcome \in {"callfailed", "exhausted", "parsefailed"}
Contributed(j) == IF gScenes[j].outcome = "ok" THEN Len(gScenes[j].sent) ELSE 0
RECURSIVE OffsetOf(_)
OffsetOf(j) == IF j <= 1 THEN 0 ELSE OffsetOf(j - 1) + Contributed(j - 1)

C4_WitnessParse ==
  /\ gDone
  /\ Len(gScenes) = 2
  /\ gScenes[1].outcome = "ok" /\ Len(gScenes[1].sent) = 1
  /\ gScenes[2].outcome = "parsefailed"
  /\ Len(gResult) = 1

(***************************************************************************)
(* Properties of generateVideo (checked under SpecVideo).  A poll is one    *)
(* pass of the poll loop: the wait and the status request.                  *)
(***************************************************************************)
\* the result URL a response carries: the first one present, in the order of
\* the nine places
CarriesUrl(r) == \E k \in 1..Len(r.urls) : r.urls[k] # NoUrl
ResultUrl(r) ==
  r.urls[CHOOSE k \in 1..Len(r.urls) :
           r.urls[k] # NoUrl /\ \A j \in 1..(k - 1) : r.urls[j] = NoUrl]

\* the polls so far returned pending, pending and then a done status with a
\* result URL, each on its first request
PendingPendingDone ==
  /\ Len(vLog) >= 3
  /\ ~vRetried
  /\ ReportedStatus(vLog[1]) = "pending"
  /\ ReportedStatus(vLog[2]) = "pending"
  /\ ReportedStatus(vLog[3]) \in DoneTokens
  /\ CarriesUrl(vLog[3])

\* the call saved a copy of the video on the file server
SavedCopy == fLog # <<>> /\ "ok" \in DOMAIN fLog[Len(fLog)].out

\* C8 as the specification states it: after pending, pending, done-with-URL
\* the call has returned after exactly 3 polls, and what it returned is that
\* URL.
C8_ReturnsTheResultUrl ==
  PendingPendingDone =>
    /\ vPc = "returned"
    /\ vPolls = 3
    /\ vResult.ok = ResultUrl(vLog[3])

\* C8: after pending, pending, done-with-URL the call has returned after
\* exactly 3 polls and no poll follows; it returns the file server's
\* reference to the saved copy when the URL's content was downloaded and
\* saved, and the result URL itself otherwise.
C8_ReturnsAfterThreePolls ==
  PendingPendingDone =>
    /\ vPc = "returned"
    /\ vPolls = 3
    /\ vAnswered = 3
    /\ IF SavedCopy
         THEN /\ vResult.ok.kind = "url"
              /\ vResult.ok.origin = API_BASE
              /\ "api" \in DOMAIN vResult.ok.path
              /\ vResult.ok.path.api.resourceType = "videos"
              /\ vResult.ok.path.api \in DOMAIN store
              /\ store[vResult.ok.path.api] = fLog[Len(fLog)].data.b64
         ELSE vResult.ok = ResultUrl(vLog[3])

C8_Witness ==
  /\ PendingPendingDone
  /\ vPc = "returned"
  /\ vPolls = 3
  /\ ReportedStatus(vLog[3]) = "completed"
  /\ ResultUrl(vLog[3]) = UpstreamVideoUrl
  /\ SavedCopy
  /\ vResult.ok # UpstreamVideoUrl
  /\ store[vResult.ok.path.api] = "V1"

\* the outcomes a caller tells apart by the error's message
IsTimeout(e) == e.message # <<>> /\ e.message[1] = "chaoshi"
IsUpstreamFailure(e) == e.message # <<>> /\ e.message[1] \in {"shibai", "shibai:"}

\* C9: while every poll returns a non-terminal status the call keeps polling,
\* up to exactly 240 polls, and then raises Timeout; Timeout is raised in no
\* other way, is not the upstream-failure outcome, and a failed or error
\* status raises the upstream-failure outcome, never Timeout.
C9_TimeoutAfterAllPolls ==
  /\ (vTaskId # "" /\ vAllRunning /\ vAnswered = vPolls) =>
       /\ vPolls <= 240
       /\ IF vPolls = 240
            THEN /\ vPc = "thrown"
                 /\ IsTimeout(vResult.throw)
                 /\ ~IsUpstreamFailure(vResult.throw)
            ELSE vPc = "wait"
  /\ (vPc = "thrown" /\ IsTimeout(vResult.throw)) =>
       vAllRunning /\ vAnswered = 240 /\ vPolls = 240
  /\ (vEnd # NoValue /\ ReportedStatus(vEnd) \in FailedTokens) =>
       /\ vPc = "thrown"
       /\ IsUpstreamFailure(vResult.throw)
       /\ ~IsTimeout(vResult.throw)

C9_Witness ==
  /\ vPc = "thrown"
  /\ IsTimeout(vResult.throw)
  /\ vPolls = 240
  /\ vAllRunning
  /\ ReportedStatus(vEnd) = ""

(***************************************************************************)
(* Properties of the file layer (checked under SpecCache).                  *)
(***************************************************************************)
\* call k saved successfully and call k + 1 resolved the reference it returned
SavedThenResolved(k) ==
  /\ fLog[k].op = "save"
  /\ "ok" \in DOMAIN fLog[k].out
  /\ fLog[k + 1].op = "resolve"
  /\ fLog[k + 1].url = fLog[k].out.ok

\* C10: a successful saveFileToServer followed immediately by getResourceUrl
\* of the returned reference gives the saved payload back without a request
\* to the file server.
C10_SaveThenResolveIsLocal ==
  \A k \in 1..(Len(fLog) - 1) :
    SavedThenResolved(k) =>
      /\ fLog[k + 1].out.ok = fLog[k].data
      /\ fLog[k + 1].net = 0

(***************************************************************************)
(* Properties of getResourceUrl (checked under SpecResolve).                *)
(***************************************************************************)
\* C11 as stated: two consecutive calls of getResourceUrl with no save in
\* between return the same value, whatever the cache holds and whether or
\* not the file server is reachable on each of the two calls.
C11_Idempotent ==
  Len(fLog) = 2 => fLog[2].out = fLog[1].out

\* C11 amended: two consecutive calls of getResourceUrl with no save in
\* between return the same value when both find the same conditions (file
\* server reachable or not, cache readable and writable or not), whatever
\* the cache holds.
C11_IdempotentUnderSameConditions ==
  (Len(fLog) = 2 /\ fLog[2].env = fLog[1].env) => fLog[2].out = fLog[1].out

\* a reference resolved twice in a row under the same conditions: the first
\* call fetched the payload, the second returned the same payload
C11_Witness ==
  /\ Len(fLog) = 2
  /\ fLog[2].env = fLog[1].env
  /\ fLog[1].net = 1 /\ fLog[1].out.ok.kind = "data"
  /\ fLog[2].net = 0 /\ fLog[2].out = fLog[1].out

\* the step is a call of getResourceUrl
ResolveStep == fLog' # fLog /\ fLog'[Len(fLog')].op = "resolve"
Resolved == fLog'[Len(fLog')]

\* the cache key of a reference: the path of the URL as the browser reports it
IsReference(url) ==
  url.kind = "url" /\ "api" \in DOMAIN url.path
CanonicalKey(url) ==
  IF url.origin # "" THEN pathname(url).api ELSE url.path.api

\* the key under which getFile looks for the file of a reference
GetFileKey(url, resourceType) ==
  filesPath(getUsername(localStorage), resourceType, CanonicalKey(url).filename)

\* C12: when the cache holds (and on reading yields) an entry under the
\* canonical key of the reference, getResourceUrl returns the payload of that
\* entry and sends no request to the file server.
C12_CacheHitIsLocal ==
  [][(/\ ResolveStep
      /\ IsReference(Resolved.url)
      /\ CanonicalKey(Resolved.url) \in DOMAIN cache
      /\ Resolved.env.cacheRead)
     => /\ Resolved.out.ok = cache[CanonicalKey(Resolved.url)].data
        /\ Resolved.net = 0
        /\ cache' = cache]_vars

\* a reference resolved from the cache entry of an earlier session, with the
\* file server unreachable
C12_Witness ==
  /\ Len(fLog) = 1
  /\ fLog[1].url = storeUrl(API_BASE, OldFile)
  /\ ~fLog[1].env.remote
  /\ fLog[1].net = 0
  /\ fLog[1].out.ok = dataUrl("video/mp4", "V9")
  /\ cache = cachedFile(OldFile, "V9")

\* C13: on a cache miss, when the fetch from the file server succeeds,
\* getResourceUrl stores the fetched payload in the cache under the key it
\* looked up, the one derived from the path of the reference; when the fetch
\* fails, the cache is left unchanged.  (Stated for calls whose cache writes
\* succeed, which is the weaker statement.)
C13_MissFillsTheCanonicalKey ==
  [][(/\ ResolveStep
      /\ IsReference(Resolved.url)
      /\ CanonicalKey(Resolved.url) \notin DOMAIN cache
      /\ Resolved.env.cacheWrite
      /\ Resolved.net = 1)
     => IF Resolved.out.ok.kind = "data"
          THEN /\ CanonicalKey(Resolved.url) \in DOMAIN cache'
               /\ cache'[CanonicalKey(Resolved.url)].data = Resolved.out.ok
          ELSE cache' = cache]_vars

\* C19: a get for a namespace, category and file name that nobody saved is
\* answered with 404, not with a server error, and leaves the store as it
\* was; getFileFromServer returns null for it and does not raise.
C19_MissingFileIs404 ==
  [][(/\ ResolveStep /\ IsReference(Resolved.url)
      /\ Resolved.net = 1 /\ Resolved.env.remote)
     => LET key == GetFileKey(Resolved.url, Resolved.resourceType)
            file == filesPath(key.username, key.resourceType, decodeSegment(key.filename))
            got == serverGet(store, encodeSegment(key.username), key.resourceType,
                             encodeSegment(key.filename))
        IN file \notin DOMAIN store
             => /\ got.status = 404
                /\ getFileFromServer(localStorage, store, Resolved.env,
                                      key.resourceType, key.filename) = NoUrl
                /\ "ok" \in DOMAIN Resolved.out
                /\ store' = store]_vars

\* the user of StoredKey asks for a file that is there for another user only:
\* one request, answered 404, and the store is as it was
C19_Witness ==
  /\ Len(fLog) = 1
  /\ fLog[1].url = storeUrl(API_BASE, OldFile)
  /\ fLog[1].resourceType = "videos"
  /\ localStorage.username = substring8(StoredKey)
  /\ store = put(<<>>, OldFile, "V0")
  /\ fLog[1].env.remote /\ fLog[1].net = 1
  /\ serverGet(store, localStorage.username, "videos", <<"o", ".mp4">>).status = 404
  /\ fLog[1].out = [ok |-> fLog[1].url]

(***************************************************************************)
(* Properties of saveFileToServer (checked under SpecCache).                *)
(***************************************************************************)
\* the step is a call of saveFileToServer
SaveStep == fLog' # fLog /\ fLog'[Len(fLog')].op = "save"
Saved == fLog'[Len(fLog')]

\* C14: saveFileToServer writes the file server first and the cache only
\* after the server has acknowledged the write: a call that changes the cache
\* has written the payload to the store and returned its reference, and a
\* call whose store write fails (the store does not get the payload) throws
\* and leaves cache and store as they were.
C14_StoreBeforeCache ==
  [][SaveStep =>
       /\ ("ok" \in DOMAIN Saved.out =>
             /\ Saved.out.ok.path.api \in DOMAIN store'
             /\ store'[Saved.out.ok.path.api] = Saved.data.b64)
       /\ (cache' # cache =>
             /\ "ok" \in DOMAIN Saved.out
             /\ cache' = put(cache, Saved.out.ok.path.api,
                             [data |-> Saved.data, resourceType |-> Saved.resourceType]))
       /\ ("throw" \in DOMAIN Saved.out => store' = store /\ cache' = cache)]_vars

\* a save whose store write failed on the server's disk, after a save that
\* succeeded: the cache holds what the first save put there
C14_Witness ==
  /\ Len(fLog) = 2
  /\ fLog[1].op = "save" /\ "ok" \in DOMAIN fLog[1].out
  /\ fLog[1].data = dataUrl("image/png", "P1")
  /\ fLog[2].op = "save" /\ "throw" \in DOMAIN fLog[2].out
  /\ fLog[2].out.throw.message = <<"EIO">>
  /\ fLog[2].data = dataUrl("image/jpeg", "P2")
  /\ cache = put(<<>>, fLog[1].out.ok.path.api,
                 [data |-> fLog[1].data, resourceType |-> "images"])
  /\ store = put(<<>>, fLog[1].out.ok.path.api, "P1")

\* the reference names a file that is neither in the cache nor on the server
MissingEverywhere(url) ==
  /\ IsReference(url)
  /\ CanonicalKey(url) \notin DOMAIN cache
  /\ url.path.api \notin DOMAIN store

\* C15 as stated: getResourceUrl of a reference whose entry is missing from
\* the cache and from the file server returns an empty result.
C15_MissingResolvesToNothing ==
  [][(ResolveStep /\ MissingEverywhere(Resolved.url))
     => ~truthy(Resolved.out.ok)]_vars

\* C15 amended: getResourceUrl of a reference whose entry is missing from the
\* cache and from the file server does not raise and never returns an empty
\* result: it returns the reference itself whenever the key getFile builds
\* finds nothing either, and getFile then gives null after one request.
C15_MissingResolvesToTheReference ==
  [][(ResolveStep /\ MissingEverywhere(Resolved.url))
     => /\ "ok" \in DOMAIN Resolved.out
        /\ truthy(Resolved.out.ok)
        /\ LET key == GetFileKey(Resolved.url, Resolved.resourceType)
               g == getFile(localStorage, store, cache, Resolved.env,
                            Resolved.resourceType, CanonicalKey(Resolved.url).filename)
           IN (/\ key \notin DOMAIN cache
               /\ filesPath(key.username, key.resourceType,
                            decodeSegment(key.filename)) \notin DOMAIN store)
              => /\ Resolved.out.ok = Resolved.url
                 /\ Resolved.net = 1
                 /\ cache' = cache
                 /\ g.value = NoUrl /\ g.net = 1]_vars

\* a reference to a file nobody saved, resolved with the file server
\* reachable: one request, and the reference comes back
C15_Witness ==
  /\ Len(fLog) = 1
  /\ fLog[1].url = storeUrl(API_BASE, filesPath(DefaultUser, "images", <<"n", ".png">>))
  /\ fLog[1].env.remote /\ fLog[1].env.cacheRead
  /\ store = OldStore
  /\ fLog[1].net = 1
  /\ fLog[1].out = [ok |-> fLog[1].url]
  /\ cache = <<>>

\* C18: a save that succeeds returns the path /api/files/get/<namespace>/
\* <category>/<finalFilename>, a get on that path then gives the bytes of this
\* save whatever the path held before, the list of the namespace and category
\* contains the file name, and nothing but a successful save changes the
\* store (so that a get gives the bytes of the most recent save to the path).
C18_StoreRoundTrip ==
  [][/\ (SaveStep /\ "ok" \in DOMAIN Saved.out) =>
          LET key == Saved.out.ok.path.api
              got == serverGet(store', encodeSegment(key.username), key.resourceType,
                               encodeSegment(key.filename))
              listed == serverList(store', encodeSegment(key.username), key.resourceType)
          IN /\ key.username = getUsername(localStorage)
             /\ key.resourceType = Saved.resourceType
             /\ key.filename \in {Saved.filename} \cup
                                  {Append(Saved.filename, e) : e \in DotPieces}
             /\ includesDot(key.filename)
             /\ got.status = 200 /\ got.body = Saved.data.b64
             /\ [filename |-> key.filename, url |-> key] \in listed.files
             /\ \A other \in DOMAIN store : other # key =>
                   other \in DOMAIN store' /\ store'[other] = store[other]
     /\ ~(SaveStep /\ "ok" \in DOMAIN Saved.out) => store' = store]_vars

\* two saves to one path, the second with other bytes: the store holds the
\* bytes of the second
C18_Witness ==
  /\ Len(fLog) = 2
  /\ fLog[1].op = "save" /\ fLog[1].out = [ok |-> storeUrl(API_BASE, filesPath(DefaultUser, "images", <<"a", ".png">>))]
  /\ fLog[2].op = "save" /\ fLog[2].out = fLog[1].out
  /\ fLog[1].data.b64 = "P1" /\ fLog[2].data.b64 = "P2"
  /\ store = put(<<>>, filesPath(DefaultUser, "images", <<"a", ".png">>), "P2")

\* C17: within one session every call of getUsername returns the same name,
\* whatever happens between the calls: the references the successful saves of
\* a session return are all in one namespace, and the name a call would
\* return is the same before and after every step, a key typed into the
\* settings dialog included.
C17_OneNamespacePerSession ==
  /\ \A j \in 1..Len(fLog), k \in 1..Len(fLog) :
       (/\ fLog[j].op = "save" /\ "ok" \in DOMAIN fLog[j].out
        /\ fLog[k].op = "save" /\ "ok" \in DOMAIN fLog[k].out)
       => fLog[j].out.ok.path.api.username = fLog[k].out.ok.path.api.username
  /\ (fLog # <<>> /\ fLog[1].op = "save" /\ "ok" \in DOMAIN fLog[1].out)
       => getUsername(localStorage) = fLog[1].out.ok.path.api.username

(***************************************************************************)
(* What generateVideo hands to its caller (checked under SpecVideo).        *)
(***************************************************************************)
\* C16: the value generateVideo returns is a reference into the file server
\* or a data: URL, never the URL the upstream API gave, whatever became of
\* the download and of the save.
C16_NeverTheUpstreamUrl ==
  vPc = "returned" =>
    \/ IsReference(vResult.ok) /\ vResult.ok.origin = API_BASE
    \/ startsWithData(vResult.ok)

(***************************************************************************)
(* The size of what the file server stores (checked under SpecUpload).      *)
(***************************************************************************)
\* C20: the save route rejects an artifact whose decoded size is over 100MB
\* and writes no file for it: every file in the store is at most 100MB.
C20_NoFileOver100MB ==
  \A key \in DOMAIN store : store[key] <= UploadFileSizeMB

(***************************************************************************)
(* The order of the scenes of generateShotList (checked under SpecShots).   *)
(***************************************************************************)
\* the request of scene gI + 1 is in flight, or its retryOperation sleeps
SceneActive == gPc = "scene" /\ rOwner = "scene" /\ rPc \in {"call", "sleep"}

\* C21: generateShotList works on one scene at a time: while the request of a
\* scene is in flight or backing off, every earlier scene has settled (its
\* retries and sleeps are over) and one delay of 1500 ms has elapsed after
\* each of them; while a delay runs and once the call has ended, no request
\* is in flight.
C21_ScenesOneAtATime ==
  /\ rPc # "idle" => gPc = "scene" /\ rOwner = "scene"
  /\ gPc = "scene" =>
       /\ Len(gScenes) = gI
       /\ gDelays = 1500 * gI
  /\ gPc = "delay" =>
       /\ Len(gScenes) = gI /\ gI >= 1
       /\ gDelays = 1500 * (gI - 1)

\* the second scene is backing off after a rate limit, the first one having
\* ended with its retries exhausted and one delay having elapsed since
C21_Witness ==
  /\ SceneActive /\ rPc = "sleep"
  /\ gI = 1
  /\ gScenes[1].outcome = "exhausted"
  /\ gDelays = 1500

\* the error callChatAPI raises for a response of HTTP status 429
From429(e) == \E h \in HttpFailures : h.status = 429 /\ e = callChatAPIError(h)

\* C23: a response of HTTP status 429 to the request of a scene is taken for
\* a rate limit whatever its body says: while attempts remain, retryOperation
\* sleeps and calls again after it.
C23_Every429IsRetried ==
  (/\ rOwner = "scene" /\ rLog # <<>>
   /\ IsErr(rLog[Len(rLog)])
   /\ From429(rLog[Len(rLog)].err)
   /\ Len(rLog) < rMax)
  => rPc \in {"sleep", "call"}

(***************************************************************************)
(* The sleeps of retryOperation (checked under SpecRetry).                  *)
(***************************************************************************)
\* C22: retryOperation sleeps only while attempts remain: a call whose every
\* attempt fails with a rate-limit signal sleeps maxRetries - 1 times, for
\* baseDelay * 2^0 .. baseDelay * 2^(maxRetries - 2), and raises the error
\* right after the last attempt.
C22_NoSleepAfterTheLastAttempt ==
  /\ (rOwner = "test" /\ rPc = "sleep") => rCalls < rMax
  /\ (/\ rOwner = "test" /\ rPc = "thrown" /\ rMax > 0 /\ rCalls = rMax
      /\ \A k \in 1..Len(rLog) : RateFailure(rLog[k]))
     => rSleeps = [k \in 1..(rMax - 1) |-> rBase * Pow2(k - 1)]

(***************************************************************************)
(* The poll loop of generateVideo (checked under SpecVideo).                *)
(***************************************************************************)
\* the step in which generateVideo takes up the answer to a status request
StatusStep == vPc = "poll" /\ rOwner = "poll" /\ rPc = "returned" /\ vAnswered' = vAnswered + 1

\* C24: a status response is taken in exactly one of three ways.  One of the
\* tokens completed, success, succeeded ends the call (with the result, or
\* with the error of a missing URL) and uses no attempt; one of the tokens
\* failed, error ends it with the upstream failure; every other value, absent
\* and unrecognized ones included, uses exactly one attempt and the loop goes
\* on, ending only when the attempts are used up.
C24_ThreeWayClassification ==
  [][StatusStep =>
       LET token == ReportedStatus(rResult)
       IN IF token \in DoneTokens
            THEN /\ vAttempts' = vAttempts
                 /\ \/ vPc' = "returned"
                    \/ vPc' = "thrown" /\ vResult'.throw = NoVideoUrl
          ELSE IF token \in FailedTokens
            THEN /\ vAttempts' = vAttempts
                 /\ vPc' = "thrown" /\ IsUpstreamFailure(vResult'.throw)
          ELSE /\ vAttempts' = vAttempts + 1
               /\ IF vAttempts + 1 < 240
                    THEN vPc' = "wait"
                    ELSE vPc' = "thrown" /\ IsTimeout(vResult'.throw)]_vars

\* two status responses, one without any status and one with a status the
\* code does not know, have used two attempts and the loop goes on
C24_Witness ==
  /\ vPc = "wait" /\ vAttempts = 2 /\ Len(vLog) = 2
  /\ ReportedStatus(vLog[1]) = ""
  /\ ReportedStatus(vLog[2]) = "queued"

\* C25: on a done status the result URL is the first non-empty one in the
\* order of the nine paths: the call throws for a missing URL only when all
\* nine are empty, and otherwise what it saves (a data: URL), what it
\* downloads and then saves (an http URL), and what it returns when nothing
\* was saved is the value at the earliest non-empty path.
C25_FirstPathWins ==
  [][(StatusStep /\ ReportedStatus(rResult) \in DoneTokens) =>
       IF ~CarriesUrl(rResult)
         THEN vPc' = "thrown" /\ vResult'.throw = NoVideoUrl
         ELSE /\ vPc' = "returned"
              /\ IF fLog' = fLog
                   THEN vResult'.ok = ResultUrl(rResult)
                   ELSE /\ fLog'[Len(fLog')].op = "save"
                        /\ IF startsWithData(ResultUrl(rResult))
                             THEN fLog'[Len(fLog')].data = ResultUrl(rResult)
                             ELSE startsWithHttp(ResultUrl(rResult))
                        /\ "throw" \in DOMAIN fLog'[Len(fLog')].out
                             => vResult'.ok = ResultUrl(rResult)]_vars

\* a done response with a data: URL at result.url and an http URL at
\* content.url: the data: URL was saved, and the call returned its copy
C25_Witness ==
  /\ vPc = "returned"
  /\ vEnd # NoValue
  /\ vEnd.urls[7] = dataUrl("video/webm", "V2")
  /\ vEnd.urls[9] = UpstreamVideoUrl
  /\ fLog # <<>>
  /\ fLog[Len(fLog)].data = dataUrl("video/webm", "V2")
  /\ "ok" \in DOMAIN fLog[Len(fLog)].out
  /\ vResult.ok = fLog[Len(fLog)].out.ok

(***************************************************************************)
(* The keyframes of generateShotList's output (checked under SpecShots).    *)
(***************************************************************************)
\* C26: in the output of generateShotList the keyframes of the shot at
\* position k are those the response listed, in its order and with their
\* types, each with status pending and with the id kf-k-<type>; the id and
\* the status the response gave them are not used (a shot whose keyframes
\* are no array has none).
C26_KeyframesReindexed ==
  gDone =>
    \A k \in 1..Len(gResult) :
      LET out == gResult[k].keyframes.arr
          raw == Sent[k].raw.keyframes
      IN /\ Len(out) = (IF "arr" \in DOMAIN raw THEN Len(raw.arr) ELSE 0)
         /\ \A j \in 1..Len(out) :
              /\ out[j].type = raw.arr[j].type
              /\ out[j].status = "pending"
              /\ out[j].id = "kf-" \o ToString(k) \o "-" \o out[j].type

\* the second shot of the output came with keyframes k1/ready, k1/failed and
\* kf-1-start/generating, and has kf-2-start, kf-2-end, kf-2-start, all pending
C26_Witness ==
  /\ gDone
  /\ Len(gResult) >= 2
  /\ "arr" \in DOMAIN Sent[2].raw.keyframes
  /\ Sent[2].raw.keyframes.arr[1] = kf("k1", "start", "ready")
  /\ Sent[2].raw.keyframes.arr[3] = kf("kf-1-start", "start", "generating")
  /\ gResult[2].keyframes.arr =
       <<kf("kf-2-start", "start", "pending"), kf("kf-2-end", "end", "pending"),
         kf("kf-2-start", "start", "pending")>>

\* the number of shots of the output that carry the id of scene j
ShotsOfScene(j) ==
  Cardinality({k \in 1..Len(gResult) : gResult[k].sceneId = SceneIdString(j)})

\* C27 as stated: the output of generateShotList has at most 8 shots with the
\* id of any one scene, however many shots the response to that scene's
\* request carried.
C27_AtMostEightShotsPerScene ==
  gDone => \A j \in 1..Len(scriptData.scenes) : ShotsOfScene(j) <= 8

\* C27 amended: the limit of 6-8 shots is an instruction of the prompt only;
\* the output has, for every scene, exactly as many shots with that scene's
\* id as the response to its request carried, more than 8 included.
C27_EveryShotOfTheResponseIsKept ==
  gDone =>
    /\ Len(gScenes) = Len(scriptData.scenes)
    /\ \A j \in 1..Len(scriptData.scenes) : ShotsOfScene(j) = Len(gScenes[j].sent)

\* a response with nine shots for the first scene, all nine in the output
C27_Witness ==
  /\ gDone
  /\ Len(gScenes) >= 1 /\ Len(gResult) >= 9
  /\ Len(gScenes[1].sent) = 9
  /\ ShotsOfScene(1) = 9
  /\ gResult[9].id = "shot-9"

(***************************************************************************)
(* getResourceUrl on payloads and on origins (checked under SpecResolve).   *)
(***************************************************************************)
\* C28: getResourceUrl of a data: URL returns it unchanged, sends no request
\* and leaves the cache, the browser's storage and the file server as they
\* were, whatever the cache holds and whether or not it can be used.
C28_DataUrlPassesThrough ==
  [][(ResolveStep /\ startsWithData(Resolved.url))
     => /\ Resolved.out = [ok |-> Resolved.url]
        /\ Resolved.net = 0
        /\ cache' = cache
        /\ store' = store
        /\ localStorage' = localStorage]_vars

\* a data: URL resolved in a browser that holds a cache entry and cannot
\* reach the file server
C28_Witness ==
  /\ Len(fLog) = 1
  /\ fLog[1].url = dataUrl("image/png", "P1")
  /\ fLog[1].out = [ok |-> dataUrl("image/png", "P1")]
  /\ fLog[1].net = 0
  /\ ~fLog[1].env.remote /\ fLog[1].env.cacheWrite
  /\ cache = cachedFile(SpacedFile, "P7")
  /\ localStorage.username = <<>>

\* the origins a reference is written with: the development base address, a
\* production base address, none
RefOrigins == {API_BASE, "https://cinegen.example", ""}
\* a browser whose cache works while the file server cannot be reached
CacheOnly == [remote |-> FALSE, disk |-> TRUE, cacheRead |-> TRUE, cacheWrite |-> TRUE]
\* saveFileToServer has just returned a reference and cached the payload
SavedAndCached ==
  /\ SaveStep
  /\ "ok" \in DOMAIN Saved.out
  /\ Saved.out.ok.path.api \in DOMAIN cache'
  /\ cache'[Saved.out.ok.path.api].data = Saved.data

\* C29: the reference saveFileToServer returned, written with any origin,
\* is looked up under the key under which saveFileToServer cached the
\* payload: getResourceUrl finds the payload in the cache, without a request.
C29_OneKeyWhateverTheOrigin ==
  [][SavedAndCached
     => \A o \in RefOrigins :
          LET g == getResourceUrl(localStorage', store', cache', CacheOnly,
                                  storeUrl(o, Saved.out.ok.path.api), Saved.resourceType)
          IN g.value = Saved.data /\ g.net = 0]_vars

\* what the file server answers to the request getResourceUrl sends for a
\* reference, as getFileFromServer reads it
Fetched(r) ==
  getFileFromServer(localStorage, store, r.env, r.resourceType, CanonicalKey(r.url).filename)

\* C30: when getResourceUrl fetches the payload of a reference from the file
\* server and the cache cannot be written, it returns the fetched payload
\* all the same; the cache stays as it was.
C30_FailedCacheWriteIsSwallowed ==
  [][(/\ ResolveStep /\ IsReference(Resolved.url)
      /\ Resolved.net = 1
      /\ ~Resolved.env.cacheWrite
      /\ truthy(Fetched(Resolved)))
     => /\ Resolved.out = [ok |-> Fetched(Resolved)]
        /\ cache' = cache]_vars

\* a reference fetched from the file server by a browser whose cache is
\* empty and cannot be written: the payload is returned, the cache is empty
C30_Witness ==
  /\ Len(fLog) = 1
  /\ fLog[1].url = storeUrl(API_BASE, OldFile)
  /\ fLog[1].env.remote /\ ~fLog[1].env.cacheWrite /\ fLog[1].env.cacheRead
  /\ fLog[1].net = 1
  /\ fLog[1].out = [ok |-> dataUrl("video/mp4", "V0")]
  /\ cache = <<>>

(***************************************************************************)
(* The life of a cache entry (checked under SpecCache).                     *)
(***************************************************************************)
\* the step is a call of getResourceUrl that fetched a payload
FetchedStep == ResolveStep /\ Resolved.net = 1 /\ Resolved.out.ok.kind = "data"
\* the step is a call of saveFileToServer that returned a reference
SavedOkStep == SaveStep /\ "ok" \in DOMAIN Saved.out

\* C31: a cache entry appears only in a successful fetch or save; after
\* every successful save the entry of the returned reference holds the
\* payload of that save; no step removes an entry.
C31_EntryLifecycle ==
  [][/\ (DOMAIN cache' # DOMAIN cache => (FetchedStep \/ SavedOkStep))
     /\ (SavedOkStep
           => /\ Saved.out.ok.path.api \in DOMAIN cache'
              /\ cache'[Saved.out.ok.path.api].data = Saved.data)
     /\ DOMAIN cache \subseteq DOMAIN cache']_vars

(***************************************************************************)
(* The bound of the poll loops (checked under SpecVideo and SpecVeo).       *)
(***************************************************************************)
\* C32: a call of generateVideo never issues more than 240 status polls,
\* whatever the upstream answers.
C32_AtMost240Polls == vPolls <= 240

(***************************************************************************)
(* Concurrent calls on one file (checked under SpecRace).                   *)
(***************************************************************************)
\* every call that was made has returned or thrown
AtRest == \A i \in DOMAIN fLog : fLog[i].pc \in {"done", "thrown"}

\* C33: once all concurrent calls of saveFileToServer and getResourceUrl on
\* one file have completed, the cache entry of the file, if there is one,
\* holds the content the file server holds for the file.
C33_CacheAgreesWithStoreAtRest ==
  AtRest => \A key \in DOMAIN cache :
              key \in DOMAIN store /\ cache[key].data.b64 = store[key]

(***************************************************************************)
(* The file a reference names (checked under SpecResolve).                  *)
(***************************************************************************)
\* the payload is the one the cache or the file server holds for the
\* namespace, category and file name of the reference
PayloadOf(url, payload) ==
  /\ payload.kind = "data"
  /\ \/ CanonicalKey(url) \in DOMAIN cache /\ cache[CanonicalKey(url)].data = payload
     \/ url.path.api \in DOMAIN store /\ store[url.path.api] = payload.b64

\* C34: getResourceUrl of a reference returns the reference itself or the
\* payload of the file the reference names, and creates no cache entry
\* under another namespace or category, whoever the current user is and
\* whatever resourceType is passed.
C34_OnlyTheFileOfTheReference ==
  [][(ResolveStep /\ IsReference(Resolved.url))
     => /\ Resolved.out.ok = Resolved.url \/ PayloadOf(Resolved.url, Resolved.out.ok)
        /\ \A key \in DOMAIN cache' \ DOMAIN cache :
             /\ key.username = Resolved.url.path.api.username
             /\ key.resourceType = Resolved.url.path.api.resourceType]_vars

(***************************************************************************)
(* Keyframe ids of the shot list (checked under SpecShots).                 *)
(***************************************************************************)
\* the places of the keyframes of the output: shot k, keyframe j
KeyframePlaces ==
  {<<k, j>> \in (1..Len(gResult)) \X (1..3) : j <= Len(gResult[k].keyframes.arr)}

\* C35: in the output of generateShotList no two keyframes have the same
\* id, whatever the upstream responses were.
C35_KeyframeIdsDistinct ==
  gDone =>
    \A p \in KeyframePlaces, q \in KeyframePlaces :
      gResult[p[1]].keyframes.arr[p[2]].id = gResult[q[1]].keyframes.arr[q[2]].id => p = q

(***************************************************************************)
(* The cost of generateShotList (checked under FairShots).                  *)
(***************************************************************************)
\* every step of a call that can be taken is taken in the end; each step
\* moves one of the places and counters named here
shotProgress == <<gPc, rPc, rCalls, rI, gDelays>>
FairShots == SpecShots /\ WF_shotProgress(NextShots)

\* requests are sent only while a scene is worked on, at most 3 for it, none
\* for a scene without text; each scene is worked on once; one delay has
\* elapsed before every scene but the first
ShotListCost ==
  /\ gPc = "scene" => rCalls <= 3 /\ ~SceneWithoutText(gI + 1) /\ Len(gScenes) = gI
  /\ gPc # "scene" => rCalls = 0
  /\ \A j \in 1..Len(gScenes) : SceneWithoutText(j) => ~gScenes[j].requested
  /\ Len(gScenes) <= Len(scriptData.scenes)
  /\ (gDone /\ Len(scriptData.scenes) >= 1)
       => gDelays = InterSceneDelay * (Len(scriptData.scenes) - 1)
  /\ (gDone /\ Len(scriptData.scenes) = 0) => gDelays = 0

\* C36: generateShotList ends for every script when every upstream call
\* returns or fails; it sends at most 3 requests per scene (at most 3N over
\* N scenes, none for a scene without text) and has waited N-1 inter-scene
\* delays when it ends.
C36_ShotListEndsWithinItsBudget == []ShotListCost /\ <>gDone

\* a call over two scenes has ended after one delay, each scene having used
\* up its three requests
C36_Witness ==
  /\ gDone
  /\ Len(scriptData.scenes) = 2
  /\ gScenes[1].outcome = "exhausted" /\ gScenes[2].outcome = "exhausted"
  /\ gDelays = InterSceneDelay

(***************************************************************************)
(* A done status without result URL (checked under SpecVideo).              *)
(***************************************************************************)
\* the call settled on a response that reports done and carries no URL at
\* any of the nine places
EndedDoneWithoutUrl ==
  /\ vEnd # NoValue
  /\ ReportedStatus(vEnd) \in DoneTokens
  /\ \A k \in 1..9 : ~truthy(vEnd.urls[k])

\* C37: on a done status without result URL generateVideo raises the
\* upstream-failure outcome at once: no poll follows the response and the
\* error is not Timeout.
C37_DoneWithoutUrlFailsAtOnce ==
  EndedDoneWithoutUrl =>
    /\ vPc = "thrown"
    /\ IsUpstreamFailure(vResult.throw)
    /\ ~IsTimeout(vResult.throw)
    /\ vPolls = vAnswered
    /\ rPc = "idle"

\* the third response says succeeded and has no URL, the two before it
\* were non-terminal: the call has thrown after three polls
C37_Witness ==
  /\ EndedDoneWithoutUrl
  /\ vPc = "thrown"
  /\ vPolls = 3 /\ vAnswered = 3 /\ vAttempts = 2
  /\ vResult.throw = NoVideoUrl

\* C38: getResourceUrl never raises: whatever the reference and whichever
\* of the cache's open, get and put and of the file server's fetch and
\* FileReader fail, the call completes with a value, undefined for an absent
\* reference and otherwise a data: payload or the reference itself
C38_GetResourceUrlNeverRaises ==
  [][ResolveStep =>
       /\ DOMAIN Resolved.out = {"ok"}
       /\ IF truthy(Resolved.url)
            THEN Resolved.out.ok = Resolved.url \/ startsWithData(Resolved.out.ok)
            ELSE Resolved.out.ok = NoUrl]_vars

\* one call in which store.get fails and one in which the FileReader fails
\* after the fetch, both ending with the reference
C38_Witness ==
  /\ Len(fLog) = 2
  /\ fLog[1].env.cacheRead /\ fLog[1].env.getError
  /\ fLog[1].url.kind = "url" /\ includesFilesGet(fLog[1].url.path)
  /\ fLog[1].out = [ok |-> fLog[1].url] /\ fLog[1].net = 0
  /\ ~fLog[2].env.getError /\ fLog[2].env.readerError /\ fLog[2].env.remote
  /\ fLog[2].out = [ok |-> fLog[2].url] /\ fLog[2].net = 1
  /\ startsWithData(getResourceUrl(localStorage, store, cache,
                                   [fLog[2].env EXCEPT !.readerError = FALSE],
                                   fLog[2].url, fLog[2].resourceType).value)


\* the calls before call i that changed the record of id: the saves and the
\* deletes of id that succeeded
writesBefore(i, id) ==
  {j \in 1..(i - 1) : /\ aLog[j].op \in {"save", "delete"} /\ aLog[j].id = id
                      /\ "ok" \in DOMAIN aLog[j].out}
lastWrite(i, id) == CHOOSE j \in writesBefore(i, id) : \A k \in writesBefore(i, id) : k <= j
\* the id of call i was saved, and not deleted since
savedBefore(i) ==
  writesBefore(i, aLog[i].id) # {} /\ aLog[lastWrite(i, aLog[i].id)].op = "save"
StoreStep == aLog' # aLog
StoreCall == aLog'[Len(aLog')]
othersUnchanged ==
  \A id \in ProjectIds \ {StoreCall.id} :
    /\ (id \in DOMAIN projects') = (id \in DOMAIN projects)
    /\ id \in DOMAIN projects => projects'[id] = projects[id]

\* C39 as stated: a load returns the project that the most recent successful
\* save of its id was called with while no delete of the id has succeeded
\* since, and rejects with "Project not found" otherwise; a save or a delete
\* of one id leaves the others as they were
C39_LoadReturnsWhatWasSaved ==
  /\ [](\A i \in DOMAIN aLog :
          aLog[i].op = "load" =>
            IF savedBefore(i)
              THEN aLog[i].out = [ok |-> aLog[lastWrite(i, aLog[i].id)].project]
              ELSE aLog[i].out = [throw |-> ProjectNotFound])
  /\ [][StoreStep => othersUnchanged]_vars

\* C39: while the database works, a load returns the record that the most
\* recent successful save of its id wrote, which is the project of that save
\* with lastModified set to the time of the save, as long as no delete of
\* the id has succeeded since, and rejects with "Project not found"
\* otherwise; a load during which the database fails rejects with the
\* error of the database; a save or a delete of one id leaves the others
\* as they were
C39_LoadReturnsTheStoredRecord ==
  /\ [](\A i \in DOMAIN aLog :
          aLog[i].op = "load" =>
            IF aLog[i].db # "ok" THEN aLog[i].out = [throw |-> RequestError]
            ELSE IF savedBefore(i)
              THEN LET w == aLog[lastWrite(i, aLog[i].id)]
                   IN aLog[i].out = [ok |-> [w.project EXCEPT !.lastModified = w.now]]
              ELSE aLog[i].out = [throw |-> ProjectNotFound])
  /\ [][StoreStep => othersUnchanged]_vars

\* p1 saved while p2 is in the store, loaded, deleted and loaded again
C39_Witness ==
  /\ Len(aLog) = 4
  /\ aLog[1].op = "save" /\ aLog[1].id = "p1" /\ aLog[1].db = "ok"
  /\ aLog[2].op = "load" /\ aLog[2].id = "p1" /\ "ok" \in DOMAIN aLog[2].out
  /\ aLog[3].op = "delete" /\ aLog[3].id = "p1" /\ aLog[3].db = "ok"
  /\ aLog[4].op = "load" /\ aLog[4].id = "p1"
  /\ aLog[4].out = [throw |-> ProjectNotFound]

\* the entries added since the last clearLogs, oldest first
clears == {i \in DOMAIN aLog : aLog[i].op = "clearLogs"}
lastClear == IF clears = {} THEN 0 ELSE CHOOSE i \in clears : \A j \in clears : j <= i
addedSinceClear == [i \in 1..(Len(aLog) - lastClear) |-> aLog[lastClear + i].entry]
LevelOf == [debug |-> "DEBUG", info |-> "INFO", warn |-> "WARN", error |-> "ERROR"]

\* C40: after any sequence of debug, info, warn, error and clearLogs the
\* buffer holds at most 1000 entries, which are the entries added last
\* since the last clearLogs, in the order they were added and each with the
\* level of its method; right after clearLogs the buffer is empty
C40_BufferHoldsTheLatestThousand ==
  LET added == addedSinceClear
      kept == IF Len(added) > 1000 THEN 1000 ELSE Len(added)
  IN /\ Len(logs) <= 1000
     /\ logs = SubSeq(added, Len(added) - kept + 1, Len(added))
     /\ \A i \in DOMAIN aLog :
          aLog[i].op # "clearLogs" => aLog[i].entry.level = LevelOf[aLog[i].op]
     /\ (aLog # <<>> /\ aLog[Len(aLog)].op = "clearLogs") => logs = <<>>

\* a full buffer took three more entries and lost its three oldest
C40_Witness ==
  /\ Len(aLog) = maxLogs + MaxLogCalls
  /\ clears = {}
  /\ Len(logs) = maxLogs
  /\ logs[1].message = MaxLogCalls + 1
  /\ logs[maxLogs].message = maxLogs + MaxLogCalls
  /\ logs[maxLogs].category = "API"

====
